---------------------------- MODULE Spec2Model ----------------------------
(***************************************************************************)
(* The building-model template customisation engine of                     *)
(* energyplus_mcp_server/utils/template_service.py (class TemplateService).*)
(*                                                                         *)
(* A document (the text of an IDF file) is a sequence of lines.  A line is *)
(* a record whose field k names what the line holds; the fields that the   *)
(* regular expressions of the service read or write are kept as values,    *)
(* and the field m of an anchor line says whether the text of the line has *)
(* the shape the service's regular expression matches (an object written   *)
(* with an inline "!- comment" between its fields does not).               *)
(*                                                                         *)
(* Units: latitude/longitude in tenths of a degree, lengths in millimetres,*)
(* vertex coordinates in micrometres (the six decimals of "%.6f"), IT load *)
(* and process load in kW, power in W, fractions in hundredths.            *)
(***************************************************************************)
EXTENDS Integers, Sequences, FiniteSets, TLC

VARIABLES
    templates_dir,     \* the metadata files under self.templates_dir, on disk
    templates_cache,   \* self._templates_cache: ordered id -> TemplateInfo
    out_dir_exists,    \* whether output_path.parent exists on disk
    out_file,          \* the file at output_path: [exists, text]
    pc,                \* position of the generate_model call
    building_spec,     \* argument building_spec (a dict: keys present only)
    template_id,       \* argument / local template_id ("" is None or empty)
    template,          \* local template: <<>> or <<TemplateInfo>>
    idf_content,       \* local idf_content
    modifications,     \* local modifications
    result,            \* what the call returned or raised
    calls,             \* history: the functions the call has invoked, in order
    http               \* the HTTP layer: clock, requests in flight, models directory

vars == <<templates_dir, templates_cache, out_dir_exists, out_file, pc, building_spec,
          template_id, template, idf_content, modifications, result, calls,
          http>>

-----------------------------------------------------------------------------
(* Bounds of the model *)

\* at most this many optional sections are present in one building_spec
MaxSections == 2

\* datetime.now() returns one of 1..MaxTime
MaxTime == 2

\* the longest document handed to a step function on its own
MaxLines == 3

\* the most step functions applied to one document outside generate_model
MaxPatches == 2

\* the most optional sections in a specification that is requested twice
MaxTwiceSections == 1

\* the most metadata files in a templates directory that is scanned
MaxFiles == 3

\* the most catalog queries made before a generate_model call
MaxQueries == 2

-----------------------------------------------------------------------------
(* Program constants *)

\* defaults.get("length_m", 15.24), in mm
DefaultLength == 15240

\* defaults.get("width_m", 15.24), in mm
DefaultWidth == 15240

\* defaults.get("height_m", 4.572), in mm
DefaultHeight == 4572

\* the epsilon 0.001 of _apply_geometry is 1/EpsilonInv
EpsilonInv == 1000

\* "int(watts_per_rack) if watts_per_rack else 500"
DefaultWattsPerUnit == 500

\* mfg_params.get("process_heat_fraction", 0.5), in hundredths
DefaultHeatFraction == 50

\* tz = round(lon / 15), with lon in tenths of a degree
TenthsPerHour == 150

\* LocationSpec: longitude: float = Field(..., ge=-180, le=180), in tenths
MaxLongitude == 1800

-----------------------------------------------------------------------------
(* Python helpers *)

\* dict.get / "key in dict": a dict is a function whose domain is its keys
Has(d, key) == key \in DOMAIN d

EmptyDict == [key \in {} |-> 0]

Abs(n) == IF n < 0 THEN -n ELSE n

\* int(n / d) in the place of round(n / d)
RoundHalfEven_truncated(n, d) == IF n >= 0 THEN n \div d ELSE -((-n) \div d)

\* Python's round(n / d) for d > 0: to the nearest integer, ties to even
RoundHalfEven(n, d) ==
    LET q == n \div d
        r == n % d
    IN  IF 2 * r < d THEN q
        ELSE IF 2 * r > d THEN q + 1
        ELSE IF q % 2 = 0 THEN q ELSE q + 1

\* Python's int(n / d) for d > 0: truncation toward zero
TruncDiv(n, d) == IF n >= 0 THEN n \div d ELSE -((-n) \div d)

\* a * n / d rounded to the nearest integer (d > 0, n >= 0), computed
\* without leaving 32 bits: the "%.6f" of float(a) * (n / d)
MulDiv(a, n, d) ==
    LET s == IF a < 0 THEN -1 ELSE 1
        b == Abs(a)
        whole == (b \div d) * n
        part == (b % d) * n
    IN  s * (whole + (2 * part + d) \div (2 * d))

-----------------------------------------------------------------------------
(* Documents: the lines the service's patterns read and write *)

\* any line no pattern of the service matches; semi: line.strip().endswith(";")
OtherLine(text, semi) == [k |-> "Other", text |-> text, semi |-> semi]

\* one Site:Location object, "Site:Location, ... ;" (pattern of line 281).
\* semi is FALSE when a comment follows the ";" that ends the object
SiteLocationLine(name, lat, lon, tz, elev, semi) ==
    [k |-> "Site:Location", name |-> name, lat |-> lat, lon |-> lon,
     tz |-> tz, elev |-> elev, semi |-> semi]

\* the Building object up to its North Axis field (pattern of line 326);
\* m: written "Building,<name>,<number>," with no comment after the name
BuildingLine(north, m) == [k |-> "Building", north |-> north, m |-> m]

\* a line holding the keyword BuildingSurface:Detailed (line 350)
SurfaceLine == [k |-> "BuildingSurface:Detailed"]

\* a line "x, y, z <sep> [!comment]" (pattern of lines 358-361).  f6: the
\* text is exactly the form line 369 emits; more: text that follows the
\* terminator and is no comment (further fields on the same line)
VertexLine(x, y, z, sep, cmt, f6, more) ==
    [k |-> "Vertex", x |-> x, y |-> y, z |-> z, sep |-> sep, cmt |-> cmt,
     f6 |-> f6, more |-> more]

\* an ElectricEquipment:ITE:AirCooled object (pattern of line 400);
\* m: "Watts/Unit," is followed directly by two integer fields
IteLine(watts, units, m) ==
    [k |-> "ElectricEquipment:ITE:AirCooled", watts |-> watts,
     units |-> units, m |-> m]

\* the keyword line of an Exterior:Lights object (pattern of line 443);
\* m: the line starts with exactly the two blanks the pattern asks for
ExteriorLightsLine(m) == [k |-> "Exterior:Lights", m |-> m]

\* the keyword line of an Output:... object (pattern of line 448)
OutputLine(m) == [k |-> "Output:", m |-> m]

\* a line holding a schedule's name, as the Name field of the schedule or
\* as a reference to it from another object (patterns of lines 474, 480)
ScheduleNameLine(name) == [k |-> "ScheduleName", name |-> name]

\* a line "Until: 24:00,<value>;" of a Schedule:Compact object;
\* m: the value follows the comma directly and the ";" follows the value
UntilLine(v, m) == [k |-> "Until", v |-> v, m |-> m]

\* a SimulationControl object (pattern of line 497); m: the two flags are
\* preceded by the texts "Run Simulation for Sizing Periods," and
\* "Run Simulation for Weather File Run Periods,"
SimulationControlLine(sizing, weather, m) ==
    [k |-> "SimulationControl", sizing |-> sizing, weather |-> weather, m |-> m]

\* the ElectricEquipment object of lines 426-440 (design level in W,
\* radiant fraction in hundredths)
ProcessEquipmentLine(w, frac) ==
    [k |-> "ProcessEquipment", w |-> w, frac |-> frac]

\* the comment block of lines 513-522
HeaderLine(tid, generated, project, project_id, location) ==
    [k |-> "Header", template |-> tid, generated |-> generated,
     project |-> project, project_id |-> project_id, location |-> location]

\* a non-vertex line "<field>;  <comment>": the ";" of an object's last
\* field with a comment behind it, so that the line does not end with ";"
LastFieldLine(text, cmt) ==
    [k |-> "Other", text |-> text, semi |-> FALSE, last |-> TRUE, cmt |-> cmt]

\* a vertex written as the pattern of lines 358-361 does not accept it,
\* with an exponent or a "+" sign: "1.0E+01, 5.0, 3.0,"
ExponentVertexLine(x, y, z, sep) ==
    [k |-> "Other", text |-> "vertex", semi |-> (sep = ";"), vertex |-> TRUE,
     x |-> x, y |-> y, z |-> z, sep |-> sep]

CoolingSchedule == "Cooling Return Air Setpoint Schedule"
HeatingSchedule == "Heating Setpoint Schedule"

\* line.strip().endswith(";") (line 375)
EndsWithSemicolon(line) ==
    CASE line.k \in {"Other", "Site:Location"} -> line.semi
      [] line.k = "Vertex" -> line.sep = ";" /\ line.cmt = "" /\ ~line.more
      [] line.k \in {"Until", "ProcessEquipment"} -> FALSE
      [] OTHER -> FALSE

-----------------------------------------------------------------------------
(* The templates directory: the documents and metadata on disk *)

\* a data-center template: every anchor once, in the form the patterns match
DataCenterDoc ==
    << OtherLine("Version", TRUE),
       SimulationControlLine("Yes", "No", TRUE),
       BuildingLine(0, TRUE),
       SiteLocationLine(<<"OldName">>, 100, 100, 1, 0, TRUE),
       SurfaceLine,
       OtherLine("Wall", FALSE),
       VertexLine(0, 0, 3000000, ",", "!- X,Y,Z", FALSE, FALSE),
       VertexLine(10000000, 5000000, 3000000, ";", "", FALSE, FALSE),
       IteLine(500, 100, TRUE),
       ScheduleNameLine(CoolingSchedule),
       UntilLine(29, TRUE),
       ScheduleNameLine(HeatingSchedule),
       UntilLine(15, TRUE),
       OutputLine(TRUE) >>

\* a warehouse template: the insertion anchors of the manufacturing step
WarehouseDoc ==
    << SimulationControlLine("No", "Yes", TRUE),
       BuildingLine(0, TRUE),
       SiteLocationLine(<<"OldName">>, 100, 100, 1, 7, TRUE),
       SurfaceLine,
       VertexLine(0, 0, 0, ",", "", FALSE, FALSE),
       VertexLine(10000000, 0, 0, ";", "", FALSE, FALSE),
       ScheduleNameLine(HeatingSchedule),
       UntilLine(15, TRUE),
       ExteriorLightsLine(TRUE),
       OutputLine(TRUE),
       OutputLine(TRUE) >>

\* a template that holds every anchor twice
TwinDoc ==
    << SimulationControlLine("Yes", "No", TRUE),
       SimulationControlLine("No", "No", TRUE),
       BuildingLine(0, TRUE),
       BuildingLine(45, TRUE),
       SiteLocationLine(<<"OldName">>, 100, 100, 1, 7, TRUE),
       SiteLocationLine(<<"Other">>, 200, 200, 1, 9, TRUE),
       IteLine(500, 100, TRUE),
       IteLine(300, 20, TRUE),
       ScheduleNameLine(CoolingSchedule),
       UntilLine(29, TRUE),
       ScheduleNameLine(CoolingSchedule),
       UntilLine(27, TRUE),
       ScheduleNameLine(HeatingSchedule),
       UntilLine(15, TRUE),
       ScheduleNameLine(HeatingSchedule),
       UntilLine(12, TRUE),
       ExteriorLightsLine(TRUE),
       ExteriorLightsLine(TRUE),
       OutputLine(TRUE) >>

\* a template written with a comment after every field, so that no pattern
\* finds its anchor; it has no Site:Location and no Output: object
CommentedDoc ==
    << SimulationControlLine("Yes", "No", FALSE),
       BuildingLine(0, FALSE),
       SurfaceLine,
       VertexLine(0, 0, 0, ";", "!- X,Y,Z", FALSE, FALSE),
       IteLine(500, 100, FALSE),
       ScheduleNameLine(CoolingSchedule),
       UntilLine(29, FALSE),
       ExteriorLightsLine(FALSE) >>

\* TemplateInfo (lines 27-37); idf is the text of the file at idf_path
TemplateInfo(tid, building_type, idf, defaults) ==
    [template_id |-> tid, building_type |-> building_type, idf |-> idf,
     defaults |-> defaults]

DataCenterTemplate ==
    TemplateInfo("DataCenter_SingleZone", "data_center", DataCenterDoc,
        [geometry |-> [length_m |-> 10000, width_m |-> 5000, height_m |-> 3000]])

WarehouseTemplate ==
    TemplateInfo("Manufacturing_Warehouse", "manufacturing", WarehouseDoc,
        [geometry |-> [length_m |-> 10000, width_m |-> 5000, height_m |-> 3000]])

TwinTemplate ==
    TemplateInfo("Twin", "data_center", TwinDoc, EmptyDict)

CommentedTemplate ==
    TemplateInfo("Commented", "office", CommentedDoc,
        [geometry |-> [length_m |-> 10000, height_m |-> 0]])

\* one <category>/<name>.json under the templates directory.  parses:
\* json.load returns a dict; template_id: "" when the key is missing or
\* empty; idf_file: "absent" (no such key), "missing" (names nothing that
\* exists), "file" (names a file, whose text is idf) or "dir" (names a
\* directory: "" or "." or a sub-directory of the category)
MetadataFile(parses, tid, idf_file, building_type, idf, defaults) ==
    [parses |-> parses, template_id |-> tid, idf_file |-> idf_file,
     building_type |-> building_type, idf |-> idf, defaults |-> defaults]

\* the metadata file a registered template was loaded from
MetadataOf(info) ==
    MetadataFile(TRUE, info.template_id, "file", info.building_type, info.idf,
                 info.defaults)

\* the catalogs the service starts with: what _load_templates built
Catalogs ==
    { <<DataCenterTemplate, WarehouseTemplate, TwinTemplate, CommentedTemplate>>,
      <<CommentedTemplate, TwinTemplate>>,
      <<>> }

\* list(self._templates_cache.keys())
Keys(cache) == [i \in DOMAIN cache |-> cache[i].template_id]

\* template_id in self._templates_cache
InCache(cache, tid) == \E i \in DOMAIN cache : cache[i].template_id = tid

\* self._templates_cache[template_id]
Lookup(cache, tid) ==
    cache[CHOOSE i \in DOMAIN cache : cache[i].template_id = tid]

-----------------------------------------------------------------------------
(* re.sub on a document *)

\* whether the pattern that looks for objects of this kind matches the line
Matches(line, kind) == line.k = kind /\ (Has(line, "m") => line.m)

\* re.search(pattern, text): some line is a match
Search(doc, kind) == \E i \in DOMAIN doc : Matches(doc[i], kind)

\* the replacement text: the matched line with the given fields rewritten
Rewrite(line, fields) ==
    [f \in DOMAIN line |-> IF f \in DOMAIN fields THEN fields[f] ELSE line[f]]

\* re.sub(pattern, repl, text): every match is rewritten
SubAll(doc, kind, fields) ==
    [i \in DOMAIN doc |->
        IF Matches(doc[i], kind) THEN Rewrite(doc[i], fields) ELSE doc[i]]

\* re.sub(pattern, repl, text, count=1): the first match is rewritten
SubFirst(doc, kind, fields) ==
    IF Search(doc, kind)
    THEN LET first == CHOOSE i \in DOMAIN doc :
                          /\ Matches(doc[i], kind)
                          /\ \A j \in 1..(i - 1) : ~Matches(doc[j], kind)
         IN  [doc EXCEPT ![first] = Rewrite(doc[first], fields)]
    ELSE doc

\* re.sub(r"(anchor)", obj + r"\1", text): obj goes in before every match,
\* or before the first max_count matches when max_count >= 0
RECURSIVE InsertBefore(_, _, _, _)
InsertBefore(doc, kind, obj, max_count) ==
    IF doc = <<>> THEN <<>>
    ELSE IF Head(doc).k = kind /\ Head(doc).m /\ max_count # 0
         THEN <<obj, Head(doc)>> \o
              InsertBefore(Tail(doc), kind, obj,
                           IF max_count > 0 THEN max_count - 1 ELSE max_count)
         ELSE <<Head(doc)>> \o InsertBefore(Tail(doc), kind, obj, max_count)

\* what a step returns or raises: err is "" when it returns
Returned(doc, mods) == [err |-> "", doc |-> doc, mods |-> mods]
Raised(err) == [err |-> err, doc |-> <<>>, mods |-> <<>>]

-----------------------------------------------------------------------------
(* TemplateService *)

\* type_mapping.get(building_type); "" is None
type_mapping(building_type) ==
    CASE building_type = "data_center" -> "DataCenter_SingleZone"
      [] building_type = "manufacturing" -> "Manufacturing_Warehouse"
      [] building_type = "warehouse" -> "Manufacturing_Warehouse"
      [] OTHER -> ""

\* _select_template without the search by building type: the first
\* registered template stands in for a mapped id that is not registered
_select_template_first(cache, building_type) ==
    LET mapped == type_mapping(building_type)
    IN  IF mapped # "" /\ InCache(cache, mapped) THEN [err |-> "", id |-> mapped]
        ELSE IF cache # <<>> THEN [err |-> "", id |-> cache[1].template_id]
        ELSE [err |-> "NoTemplateForType", id |-> ""]

\* _select_template: [err, id]
_select_template(cache, building_type) ==
    LET mapped == type_mapping(building_type)
        same == {i \in DOMAIN cache : cache[i].building_type = building_type}
    IN  IF mapped = "" \/ ~InCache(cache, mapped)
        THEN IF same # {}
             THEN [err |-> "",
                   id |-> cache[CHOOSE i \in same : \A j \in same : i <= j].template_id]
             ELSE IF cache # <<>>
                  THEN [err |-> "", id |-> cache[1].template_id]
                  ELSE [err |-> "NoTemplateForType", id |-> ""]
        ELSE [err |-> "", id |-> mapped]

\* get_template that falls back to the first template instead of raising
get_template_fallback(cache, tid) ==
    IF InCache(cache, tid)
    THEN [err |-> "", available |-> <<>>, template |-> <<Lookup(cache, tid)>>]
    ELSE IF cache # <<>>
    THEN [err |-> "", available |-> <<>>, template |-> <<cache[1]>>]
    ELSE [err |-> "TemplateNotFound", available |-> <<>>, template |-> <<>>]

\* get_template: [err, available, template]
get_template(cache, tid) ==
    IF ~InCache(cache, tid)
    THEN [err |-> "TemplateNotFound", available |-> Keys(cache), template |-> <<>>]
    ELSE [err |-> "", available |-> <<>>, template |-> <<Lookup(cache, tid)>>]

\* f"Site_{lat:.2f}_{lon:.2f}" (tenths of a degree print exactly)
DefaultSiteName(lat, lon) == <<"Site", lat, lon>>

\* the number of "," in a site name: line 284 writes the name as it is, and
\* each "," in it ends a field of the Site:Location object
Commas(site_name) == IF site_name = <<"Austin, TX">> THEN 1 ELSE 0

\* _apply_location
_apply_location(idf, location) ==
    IF ~Has(location, "latitude") \/ ~Has(location, "longitude")
    THEN Raised("TypeError")   \* line 274 formats None with ".2f"
    ELSE
    LET lat == location.latitude
        lon == location.longitude
        elev == IF Has(location, "elevation_m") THEN location.elevation_m ELSE 0
        site_name == IF Has(location, "site_name") THEN location.site_name
                     ELSE DefaultSiteName(lat, lon)
        tz == RoundHalfEven(lon, TenthsPerHour)
        new_location == SiteLocationLine(site_name, lat, lon, tz, elev, FALSE)
    IN  IF Search(idf, "Site:Location")
        THEN Returned(SubAll(idf, "Site:Location", new_location),
                      << [k |-> "Updated Site:Location", site_name |-> site_name,
                          lat |-> lat, lon |-> lon] >>)
        ELSE Returned(idf, <<>>)

\* one factor applied to all three coordinates
ScaledVertex_uniform(line, sx, sy, sz) ==
    [line EXCEPT !.x = MulDiv(line.x, sx[1], sx[2]),
                 !.y = MulDiv(line.y, sx[1], sx[2]),
                 !.z = MulDiv(line.z, sx[1], sx[2]),
                 !.f6 = TRUE,
                 !.more = FALSE]

\* one vertex line as line 369 writes it
ScaledVertex(line, sx, sy, sz) ==
    [line EXCEPT !.x = MulDiv(line.x, sx[1], sx[2]),
                 !.y = MulDiv(line.y, sy[1], sy[2]),
                 !.z = MulDiv(line.z, sz[1], sz[2]),
                 !.f6 = TRUE,
                 !.more = FALSE]

\* the loop of lines 349-378 from line i on, entered with in_surface
RECURSIVE ScaleLines(_, _, _, _, _, _)
ScaleLines(lines, i, in_surface, sx, sy, sz) ==
    IF i > Len(lines) THEN <<>>
    ELSE LET line == lines[i]
         IN  IF line.k = "BuildingSurface:Detailed"
             THEN <<line>> \o ScaleLines(lines, i + 1, TRUE, sx, sy, sz)
             ELSE IF in_surface /\ line.k = "Vertex"
             THEN <<ScaledVertex(line, sx, sy, sz)>> \o
                  ScaleLines(lines, i + 1, line.sep # ";", sx, sy, sz)
             ELSE <<line>> \o
                  ScaleLines(lines, i + 1,
                             in_surface /\ ~EndsWithSemicolon(line), sx, sy, sz)

\* _scale_geometry; a scale factor is the pair <<requested, default>>
_scale_geometry(idf, scale_x, scale_y, scale_z) ==
    ScaleLines(idf, 1, FALSE, scale_x, scale_y, scale_z)

\* scale != 1.0 in the place of the epsilon test
Deviates_exact(v, d) == v # d

\* the pairs <<v, d>> (mm) with v / d exactly 0.001 from 1 for which the
\* float quotient lies further than the float 0.001 from 1.0: with the
\* dimensions in metres, abs(9.99 / 10.0 - 1.0) > 0.001 is True and
\* abs(10.01 / 10.0 - 1.0) > 0.001 is False
RoundsBeyond ==
    {<<9990, 10000>>, <<4995, 5000>>, <<3003, 3000>>, <<2997, 3000>>}

\* abs(scale - 1.0) > 0.001 for scale = v / d.  When the quotient lies
\* exactly 0.001 from 1 the rounding of the float division decides
Deviates(v, d) ==
    \/ Abs(v - d) * EpsilonInv > Abs(d)
    \/ Abs(v - d) * EpsilonInv = Abs(d) /\ <<v, d>> \in RoundsBeyond

\* _apply_geometry
_apply_geometry(idf, geometry, defaults) ==
    LET default_length == IF Has(defaults, "length_m") THEN defaults.length_m
                          ELSE DefaultLength
        default_width == IF Has(defaults, "width_m") THEN defaults.width_m
                         ELSE DefaultWidth
        default_height == IF Has(defaults, "height_m") THEN defaults.height_m
                          ELSE DefaultHeight
        length == IF Has(geometry, "length_m") THEN geometry.length_m
                  ELSE default_length
        width == IF Has(geometry, "width_m") THEN geometry.width_m
                 ELSE default_width
        height == IF Has(geometry, "height_m") THEN geometry.height_m
                  ELSE default_height
        differ == \/ Deviates(length, default_length)
                  \/ Deviates(width, default_width)
                  \/ Deviates(height, default_height)
        scaled == IF differ
                  THEN _scale_geometry(idf, <<length, default_length>>,
                                       <<width, default_width>>,
                                       <<height, default_height>>)
                  ELSE idf
        scale_mods == IF differ
                      THEN << [k |-> "Scaled geometry", length |-> length,
                               width |-> width, height |-> height] >>
                      ELSE <<>>
    IN  IF default_length = 0 \/ default_width = 0 \/ default_height = 0
        THEN Raised("ZeroDivisionError")   \* lines 312-314
        ELSE IF Has(geometry, "orientation_deg")
        THEN Returned(SubFirst(scaled, "Building",
                               [north |-> geometry.orientation_deg]),
                      scale_mods \o << [k |-> "Set building orientation",
                                        deg |-> geometry.orientation_deg] >>)
        ELSE Returned(scaled, scale_mods)

\* _apply_data_center_params.  watts_per_rack is None (<<>>) or the
\* quotient <<numerator, denominator>>
_apply_data_center_params(idf, dc_params) ==
    LET it_load_kw == IF Has(dc_params, "it_load_kw") THEN dc_params.it_load_kw
                      ELSE 0
        rack_count == IF Has(dc_params, "rack_count") THEN dc_params.rack_count
                      ELSE 0
        watts_per_rack ==
            IF it_load_kw # 0 /\ rack_count # 0
            THEN <<it_load_kw * 1000, rack_count>>
            ELSE IF Has(dc_params, "watts_per_rack")
                 THEN <<dc_params.watts_per_rack, 1>>
                 ELSE <<>>
        written == IF watts_per_rack # <<>> /\ watts_per_rack[1] # 0
                   THEN TruncDiv(watts_per_rack[1], watts_per_rack[2])
                   ELSE DefaultWattsPerUnit
    IN  IF ~Has(dc_params, "rack_count")
        THEN Returned(idf, <<>>)
        ELSE IF watts_per_rack = <<>>
        THEN Raised("TypeError")   \* line 407 formats None with ".0f"
        ELSE Returned(SubAll(idf, "ElectricEquipment:ITE:AirCooled",
                             [watts |-> written, units |-> rack_count]),
                      << [k |-> "Set IT equipment", units |-> rack_count,
                          watts |-> RoundHalfEven(watts_per_rack[1],
                                                  watts_per_rack[2])] >>)

\* _apply_manufacturing_params
_apply_manufacturing_params(idf, mfg_params) ==
    LET process_load_kw == IF Has(mfg_params, "process_load_kw")
                           THEN mfg_params.process_load_kw ELSE 0
        heat_fraction == IF Has(mfg_params, "process_heat_fraction")
                         THEN mfg_params.process_heat_fraction
                         ELSE DefaultHeatFraction
        process_equipment == ProcessEquipmentLine(process_load_kw * 1000, heat_fraction)
        inserted == IF Search(idf, "Exterior:Lights")
                    THEN InsertBefore(idf, "Exterior:Lights", process_equipment, -1)
                    ELSE InsertBefore(idf, "Output:", process_equipment, 1)
        load_mods == << [k |-> "Added process equipment load",
                         kw |-> process_load_kw, frac |-> heat_fraction] >>
        note_mods == IF Has(mfg_params, "occupancy_count")
                     THEN << [k |-> "Note: Occupancy",
                              n |-> mfg_params.occupancy_count] >>
                     ELSE <<>>
    IN  IF process_load_kw > 0
        THEN Returned(inserted, load_mods \o note_mods)
        ELSE Returned(idf, note_mods)

\* re.sub(r"(<name>.*?Until: 24:00,)([0-9.-]+)(;)", ..., flags=re.DOTALL)
\* from line pos on: a match runs from a line holding the name to the
\* nearest "Until: 24:00,<number>;" after it; the search goes on behind it
RECURSIVE SubSetpoint(_, _, _, _)
SubSetpoint(idf, name, value, pos) ==
    LET starts == {i \in pos..Len(idf) :
                       idf[i].k = "ScheduleName" /\ idf[i].name = name}
        start == CHOOSE i \in starts : \A j \in starts : i <= j
        ends == {i \in start..Len(idf) : idf[i].k = "Until" /\ idf[i].m}
        last == CHOOSE i \in ends : \A j \in ends : i <= j
    IN  IF starts = {} THEN idf
        ELSE IF ends = {} THEN idf
        ELSE SubSetpoint([idf EXCEPT ![last].v = value], name, value, last + 1)

\* _apply_setpoints
_apply_setpoints(idf, setpoints) ==
    LET cooled == IF Has(setpoints, "cooling_setpoint_c")
                  THEN SubSetpoint(idf, CoolingSchedule,
                                   setpoints.cooling_setpoint_c, 1)
                  ELSE idf
        cool_mods == IF Has(setpoints, "cooling_setpoint_c")
                     THEN << [k |-> "Set cooling setpoint",
                              v |-> setpoints.cooling_setpoint_c] >>
                     ELSE <<>>
        heated == IF Has(setpoints, "heating_setpoint_c")
                  THEN SubSetpoint(cooled, HeatingSchedule,
                                   setpoints.heating_setpoint_c, 1)
                  ELSE cooled
        heat_mods == IF Has(setpoints, "heating_setpoint_c")
                     THEN << [k |-> "Set heating setpoint",
                              v |-> setpoints.heating_setpoint_c] >>
                     ELSE <<>>
    IN  Returned(heated, cool_mods \o heat_mods)

\* "Yes" if flag else "No"
YesNo(flag) == IF flag THEN "Yes" ELSE "No"

\* a sizing run that switches the sizing-period flag on as well
_apply_simulation_options_sizing(idf, options) ==
    LET run_annual == IF Has(options, "run_annual") THEN options.run_annual
                      ELSE FALSE
        run_design_days == IF Has(options, "run_design_days")
                           THEN options.run_design_days ELSE TRUE
        sizing_run == IF Has(options, "sizing_run") THEN options.sizing_run
                      ELSE FALSE
    IN  Returned(SubAll(idf, "SimulationControl",
                        [sizing |-> YesNo(run_design_days \/ sizing_run),
                         weather |-> YesNo(run_annual)]),
                 << [k |-> "Simulation", design_days |-> run_design_days,
                     annual |-> run_annual] >>)

\* _apply_simulation_options
_apply_simulation_options(idf, options) ==
    LET run_annual == IF Has(options, "run_annual") THEN options.run_annual
                      ELSE FALSE
        run_design_days == IF Has(options, "run_design_days")
                           THEN options.run_design_days ELSE TRUE
    IN  Returned(SubAll(idf, "SimulationControl",
                        [sizing |-> YesNo(run_design_days),
                         weather |-> YesNo(run_annual)]),
                 << [k |-> "Simulation", design_days |-> run_design_days,
                     annual |-> run_annual] >>)

\* a header that carries the time of generation in its Location line too
_generate_metadata_comment_stamped(spec, tid, now) ==
    HeaderLine(tid, now,
        IF Has(spec, "project_name") THEN spec.project_name ELSE "Unknown",
        IF Has(spec, "project_id") THEN spec.project_id ELSE "Unknown",
        <<"Generated", now>>)

\* _generate_metadata_comment; now is datetime.now()
_generate_metadata_comment(spec, tid, now) ==
    HeaderLine(tid, now,
        IF Has(spec, "project_name") THEN spec.project_name ELSE "Unknown",
        IF Has(spec, "project_id") THEN spec.project_id ELSE "Unknown",
        IF Has(spec, "location") /\ Has(spec.location, "site_name")
        THEN spec.location.site_name ELSE <<"Unknown">>)

-----------------------------------------------------------------------------
(* The arguments of generate_model the model draws from *)

Locations ==
    { [latitude |-> 375, longitude |-> -1223],
      [latitude |-> 375, longitude |-> -1223, elevation_m |-> 30,
       site_name |-> <<"Acme">>],
      [longitude |-> 75] }

Geometries ==
    { [length_m |-> 10005],
      [length_m |-> 10010],
      [length_m |-> 9990],
      [length_m |-> 20000, width_m |-> 2500, orientation_deg |-> 90],
      [orientation_deg |-> 90] }

DataCenters ==
    { [rack_count |-> 10, it_load_kw |-> 50],
      [rack_count |-> 3, it_load_kw |-> 50],
      [rack_count |-> 10, it_load_kw |-> 50, watts_per_rack |-> 400],
      [rack_count |-> 10, watts_per_rack |-> 400],
      [rack_count |-> 10],
      [it_load_kw |-> 50] }

Manufacturings ==
    { [process_load_kw |-> 5],
      [process_load_kw |-> 5, process_heat_fraction |-> 30, occupancy_count |-> 3],
      [process_load_kw |-> 0] }

Setpoints ==
    { [cooling_setpoint_c |-> 24],
      [heating_setpoint_c |-> 18],
      [cooling_setpoint_c |-> 24, heating_setpoint_c |-> 18] }

SimulationOptions ==
    { EmptyDict,
      [run_annual |-> TRUE],
      [run_design_days |-> FALSE],
      [run_design_days |-> FALSE, sizing_run |-> TRUE],
      [run_annual |-> TRUE, run_design_days |-> TRUE, sizing_run |-> TRUE] }

BuildingTypes == {"data_center", "manufacturing", "office"}

TemplateIds ==
    {"", "DataCenter_SingleZone", "Manufacturing_Warehouse", "Twin",
     "Commented", "Missing"}

\* an optional key: absent (<<>>) or present with one of the values
Opt(values) == {<<>>} \cup {<<v>> : v \in values}

Item(key, opt) == IF opt = <<>> THEN EmptyDict ELSE key :> opt[1]

SectionChoices ==
    { c \in Opt(Locations) \X Opt(Geometries) \X Opt(DataCenters) \X
            Opt(Manufacturings) \X Opt(Setpoints) \X Opt(SimulationOptions) :
        Cardinality({i \in 1..6 : c[i] # <<>>}) <= MaxSections }

BuildingSpecs ==
    { Item("building_type", bt) @@ Item("location", c[1]) @@
      Item("geometry", c[2]) @@ Item("data_center", c[3]) @@
      Item("manufacturing", c[4]) @@ Item("setpoints", c[5]) @@
      Item("simulation_options", c[6]) :
        bt \in Opt(BuildingTypes), c \in SectionChoices }

-----------------------------------------------------------------------------
(* generate_model, one action per statement of its body *)

\* the HTTP layer with no request received: the clock (seconds), the
\* requests in flight, the files under <output_dir>/models
NoRequests == [now |-> 1, req |-> <<>>, models |-> EmptyDict]

NoFile == [exists |-> FALSE, text |-> <<>>]

\* the service as constructed, no call made yet
Init ==
    /\ templates_cache \in Catalogs
    /\ templates_dir = [i \in DOMAIN templates_cache |->
                            MetadataOf(templates_cache[i])]
    /\ out_dir_exists = FALSE
    /\ out_file = NoFile
    /\ pc = "idle"
    /\ building_spec = EmptyDict
    /\ template_id = ""
    /\ template = <<>>
    /\ idf_content = <<>>
    /\ modifications = <<>>
    /\ result = [status |-> "none"]
    /\ calls = <<>>
    /\ http = NoRequests

\* generate_model(building_spec, output_path, template_id) is entered
Call ==
    /\ pc = "idle"
    /\ \E spec \in BuildingSpecs, tid \in TemplateIds :
           /\ building_spec' = spec
           /\ template_id' = tid
    /\ pc' = "resolve"
    /\ UNCHANGED <<http, templates_dir, templates_cache, out_dir_exists, out_file, template,
                   idf_content, modifications, result, calls>>

\* an exception leaves generate_model
Raise(err, available, made) ==
    /\ pc' = "raised"
    /\ result' = [status |-> "raised", error |-> err, available |-> available]
    /\ calls' = calls \o made
    /\ UNCHANGED <<http, templates_dir, templates_cache, out_dir_exists, out_file, building_spec,
                   template_id, template, idf_content, modifications>>

\* lines 169-175
Resolve ==
    /\ pc = "resolve"
    /\ LET building_type == IF Has(building_spec, "building_type")
                            THEN building_spec.building_type ELSE "data_center"
           selected == IF template_id = ""
                       THEN _select_template(templates_cache, building_type)
                       ELSE [err |-> "", id |-> template_id]
           made == IF template_id = "" THEN <<"_select_template">> ELSE <<>>
           got == get_template(templates_cache, selected.id)
       IN  IF selected.err # ""
           THEN Raise(selected.err, <<>>, made)
           ELSE IF got.err # ""
           THEN Raise(got.err, got.available, made \o <<"get_template">>)
           ELSE /\ template_id' = selected.id
                /\ template' = got.template
                /\ calls' = calls \o made \o <<"get_template">>
                /\ pc' = "load"
                /\ UNCHANGED <<http, templates_dir, templates_cache, out_dir_exists, out_file,
                               building_spec, idf_content, modifications, result>>

\* the output file opened for writing at the time the template is read
LoadTemplate_prewrite ==
    /\ pc = "load"
    /\ idf_content' = template[1].idf
    /\ modifications' = <<>>
    /\ out_dir_exists' = TRUE
    /\ out_file' = [exists |-> TRUE, text |-> <<>>]
    /\ calls' = Append(calls, "read")
    /\ pc' = "location"
    /\ UNCHANGED <<http, templates_dir, templates_cache, building_spec,
                   template_id, template, result>>

\* lines 177-182
LoadTemplate ==
    /\ pc = "load"
    /\ idf_content' = template[1].idf
    /\ modifications' = <<>>
    /\ calls' = Append(calls, "read")
    /\ pc' = "location"
    /\ UNCHANGED <<http, templates_dir, templates_cache, out_dir_exists, out_file, building_spec,
                   template_id, template, result>>

\* "if <section> in building_spec: idf_content, mods = self._apply_...;
\*  modifications.extend(mods)": applies says whether the condition holds,
\* got is what the step function returns or raises
Step(here, next, applies, name, got) ==
    /\ pc = here
    /\ IF ~applies
       THEN /\ pc' = next
            /\ UNCHANGED <<idf_content, modifications, result, calls>>
       ELSE IF got.err # ""
       THEN /\ pc' = "raised"
            /\ result' = [status |-> "raised", error |-> got.err,
                          available |-> <<>>]
            /\ calls' = Append(calls, name)
            /\ UNCHANGED <<idf_content, modifications>>
       ELSE /\ pc' = next
            /\ idf_content' = got.doc
            /\ modifications' = modifications \o got.mods
            /\ calls' = Append(calls, name)
            /\ UNCHANGED result
    /\ UNCHANGED <<http, templates_dir, templates_cache, out_dir_exists, out_file, building_spec,
                   template_id, template>>

\* lines 184-189
ApplyLocation ==
    Step("location", "geometry", Has(building_spec, "location"),
         "_apply_location",
         _apply_location(idf_content, building_spec.location))

\* lines 191-196
ApplyGeometry ==
    Step("geometry", "data_center", Has(building_spec, "geometry"),
         "_apply_geometry",
         _apply_geometry(idf_content, building_spec.geometry,
             IF Has(template[1].defaults, "geometry")
             THEN template[1].defaults.geometry ELSE EmptyDict))

\* lines 198-203
ApplyDataCenter ==
    Step("data_center", "manufacturing",
         /\ Has(building_spec, "building_type")
         /\ building_spec.building_type = "data_center"
         /\ Has(building_spec, "data_center"),
         "_apply_data_center_params",
         _apply_data_center_params(idf_content, building_spec.data_center))

\* the manufacturing step run for every specification that has the section
ApplyManufacturing_untagged ==
    Step("manufacturing", "setpoints", Has(building_spec, "manufacturing"),
         "_apply_manufacturing_params",
         _apply_manufacturing_params(idf_content, building_spec.manufacturing))

\* lines 205-210
ApplyManufacturing ==
    Step("manufacturing", "setpoints",
         /\ Has(building_spec, "building_type")
         /\ building_spec.building_type = "manufacturing"
         /\ Has(building_spec, "manufacturing"),
         "_apply_manufacturing_params",
         _apply_manufacturing_params(idf_content, building_spec.manufacturing))

\* ApplySetpoints that patches the template text as read, not idf_content
ApplySetpoints_on_template ==
    Step("setpoints", "simulation_options", Has(building_spec, "setpoints"),
         "_apply_setpoints",
         _apply_setpoints(template[1].idf, building_spec.setpoints))

\* lines 212-217
ApplySetpoints ==
    Step("setpoints", "simulation_options", Has(building_spec, "setpoints"),
         "_apply_setpoints",
         _apply_setpoints(idf_content, building_spec.setpoints))

\* lines 219-224
ApplySimulationOptions ==
    Step("simulation_options", "metadata",
         Has(building_spec, "simulation_options"),
         "_apply_simulation_options",
         _apply_simulation_options(idf_content, building_spec.simulation_options))

\* AddMetadata with "idf_content + metadata_comment"
AddMetadata_appended ==
    /\ pc = "metadata"
    /\ \E now \in 1..MaxTime :
           idf_content' =
               Append(idf_content,
                      _generate_metadata_comment(building_spec, template_id, now))
    /\ calls' = Append(calls, "_generate_metadata_comment")
    /\ pc' = "save"
    /\ UNCHANGED <<http, templates_dir, templates_cache, out_dir_exists, out_file, building_spec,
                   template_id, template, modifications, result>>

\* the header written over the first line of the document
AddMetadata_replacing ==
    /\ pc = "metadata"
    /\ \E now \in 1..MaxTime :
           idf_content' =
               <<_generate_metadata_comment(building_spec, template_id, now)>>
               \o Tail(idf_content)
    /\ calls' = Append(calls, "_generate_metadata_comment")
    /\ pc' = "save"
    /\ UNCHANGED <<http, templates_dir, templates_cache, out_dir_exists, out_file,
                   building_spec, template_id, template, modifications, result>>

\* lines 226-228
AddMetadata ==
    /\ pc = "metadata"
    /\ \E now \in 1..MaxTime :
           idf_content' =
               <<_generate_metadata_comment(building_spec, template_id, now)>>
               \o idf_content
    /\ calls' = Append(calls, "_generate_metadata_comment")
    /\ pc' = "save"
    /\ UNCHANGED <<http, templates_dir, templates_cache, out_dir_exists, out_file, building_spec,
                   template_id, template, modifications, result>>

\* lines 230-234
Save ==
    /\ pc = "save"
    /\ out_dir_exists' = TRUE
    /\ out_file' = [exists |-> TRUE, text |-> idf_content]
    /\ calls' = calls \o <<"mkdir", "write">>
    /\ pc' = "return"
    /\ UNCHANGED <<http, templates_dir, templates_cache, building_spec, template_id, template,
                   idf_content, modifications, result>>

\* lines 238-244
Return ==
    /\ pc = "return"
    /\ \E now \in 1..MaxTime :
           result' = [status |-> "returned", success |-> TRUE,
                      template_used |-> template_id,
                      modifications_applied |-> modifications,
                      timestamp |-> now]
    /\ pc' = "done"
    /\ UNCHANGED <<http, templates_dir, templates_cache, out_dir_exists, out_file, building_spec,
                   template_id, template, idf_content, modifications, calls>>

Run ==
    \/ Resolve
    \/ LoadTemplate
    \/ ApplyLocation
    \/ ApplyGeometry
    \/ ApplyDataCenter
    \/ ApplyManufacturing
    \/ ApplySetpoints
    \/ ApplySimulationOptions
    \/ AddMetadata
    \/ Save
    \/ Return

Next == Call \/ Run

Spec == Init /\ [][Next]_vars

-----------------------------------------------------------------------------
(* Properties of generate_model *)

Range(seq) == {seq[i] : i \in DOMAIN seq}

OptionalSections ==
    {"location", "geometry", "data_center", "manufacturing", "setpoints",
     "simulation_options"}

\* the call has got past template resolution without an exception
Resolved == template # <<>>

\* C1: generate_model called with a template id that is not registered
\* fails with the template-not-found error naming the known ids, before
\* the template file is read; no output directory is created and no output
\* file is written.  (An empty id counts as omitted: "if not template_id".)
C1_UnknownTemplateFails ==
    (pc \notin {"idle", "resolve"} /\ template_id # ""
         /\ ~InCache(templates_cache, template_id))
    => /\ pc = "raised"
       /\ result.status = "raised"
       /\ result.error = "TemplateNotFound"
       /\ result.available = Keys(templates_cache)
       /\ Range(calls) \cap {"read", "mkdir", "write"} = {}
       /\ ~out_dir_exists
       /\ out_file = NoFile

C1_Witness ==
    /\ pc = "raised"
    /\ template_id = "Missing"
    /\ Len(templates_cache) > 1
    /\ result.error = "TemplateNotFound"

\* the document holds no line that a pattern of the step at pc matches
NothingToMatch ==
    CASE pc = "location" -> ~Search(idf_content, "Site:Location")
      [] pc = "geometry" -> /\ ~Search(idf_content, "BuildingSurface:Detailed")
                            /\ ~Search(idf_content, "Building")
      [] pc = "data_center" ->
             ~Search(idf_content, "ElectricEquipment:ITE:AirCooled")
      [] pc = "manufacturing" -> /\ ~Search(idf_content, "Exterior:Lights")
                                 /\ ~Search(idf_content, "Output:")
      [] pc = "setpoints" -> ~Search(idf_content, "Until")
      [] pc = "simulation_options" -> ~Search(idf_content, "SimulationControl")
      [] OTHER -> FALSE

\* C2: a step whose anchor pattern matches nothing in the document returns
\* the document unchanged and adds no entry to the modification list.
C2_NoMatchNoEntry ==
    [][NothingToMatch =>
           /\ idf_content' = idf_content
           /\ modifications' = modifications]_vars

\* C3: once the template has been resolved, generate_model never raises.
C3_NoRaiseAfterResolve == Resolved => pc # "raised"

\* C4: with none of the optional sections in the specification, the file
\* written is the provenance header followed by the template text exactly,
\* and the modification list is empty.
C4_BareSpecCopiesTemplate ==
    (pc \in {"return", "done"} /\ DOMAIN building_spec \cap OptionalSections = {})
    => /\ out_file.exists
       /\ Len(out_file.text) = Len(template[1].idf) + 1
       /\ Head(out_file.text).k = "Header"
       /\ Tail(out_file.text) = template[1].idf
       /\ modifications = <<>>
       /\ pc = "done" => result.modifications_applied = <<>>

C4_Witness ==
    /\ pc = "done"
    /\ DOMAIN building_spec \cap OptionalSections = {}
    /\ template_id = "DataCenter_SingleZone"
    /\ out_file.exists

\* the position of a function in the body of generate_model
CallRank(name) ==
    CASE name = "_select_template" -> 1
      [] name = "get_template" -> 2
      [] name = "read" -> 3
      [] name = "_apply_location" -> 4
      [] name = "_apply_geometry" -> 5
      [] name = "_apply_data_center_params" -> 6
      [] name = "_apply_manufacturing_params" -> 7
      [] name = "_apply_setpoints" -> 8
      [] name = "_apply_simulation_options" -> 9
      [] name = "_generate_metadata_comment" -> 10
      [] name = "mkdir" -> 11
      [] name = "write" -> 12

\* the function that writes a kind of modification entry
Author(entry) ==
    CASE entry.k = "Updated Site:Location" -> "_apply_location"
      [] entry.k \in {"Scaled geometry", "Set building orientation"} ->
             "_apply_geometry"
      [] entry.k = "Set IT equipment" -> "_apply_data_center_params"
      [] entry.k \in {"Added process equipment load", "Note: Occupancy"} ->
             "_apply_manufacturing_params"
      [] entry.k \in {"Set cooling setpoint", "Set heating setpoint"} ->
             "_apply_setpoints"
      [] entry.k = "Simulation" -> "_apply_simulation_options"

\* the document the steps produce when each is given the document of the
\* step before it, in the order location, geometry, type-specific,
\* setpoints, simulation options
ChainedFor(spec, info) ==
    LET d0 == info.idf
        d1 == IF Has(spec, "location")
              THEN _apply_location(d0, spec.location).doc ELSE d0
        d2 == IF Has(spec, "geometry")
              THEN _apply_geometry(d1, spec.geometry,
                       IF Has(info.defaults, "geometry")
                       THEN info.defaults.geometry ELSE EmptyDict).doc
              ELSE d1
        typed == Has(spec, "building_type")
        d3 == IF typed /\ spec.building_type = "data_center"
                 /\ Has(spec, "data_center")
              THEN _apply_data_center_params(d2, spec.data_center).doc ELSE d2
        d4 == IF typed /\ spec.building_type = "manufacturing"
                 /\ Has(spec, "manufacturing")
              THEN _apply_manufacturing_params(d3, spec.manufacturing).doc ELSE d3
        d5 == IF Has(spec, "setpoints")
              THEN _apply_setpoints(d4, spec.setpoints).doc ELSE d4
        d6 == IF Has(spec, "simulation_options")
              THEN _apply_simulation_options(d5, spec.simulation_options).doc
              ELSE d5
    IN  d6

Chained == ChainedFor(building_spec, template[1])

\* C5: the steps run in the fixed order location, geometry, type-specific
\* parameters, setpoints, simulation options, header; each step receives
\* the document of the step before it; the modification entries appear in
\* that step order.
C5_FixedStepOrder ==
    /\ \A i, j \in DOMAIN calls : i < j => CallRank(calls[i]) < CallRank(calls[j])
    /\ \A i, j \in DOMAIN modifications :
           i < j => CallRank(Author(modifications[i]))
                        <= CallRank(Author(modifications[j]))
    /\ \A i \in DOMAIN modifications : Author(modifications[i]) \in Range(calls)
    /\ pc \in {"return", "done"} =>
           /\ Head(out_file.text).k = "Header"
           /\ Tail(out_file.text) = Chained
    /\ pc = "done" => result.modifications_applied = modifications

C5_Witness ==
    /\ pc = "done"
    /\ Has(building_spec, "location")
    /\ Has(building_spec, "setpoints")
    /\ Len(result.modifications_applied) >= 3
    /\ result.modifications_applied[1].k = "Updated Site:Location"
    /\ result.modifications_applied[3].k = "Set heating setpoint"
    /\ \E i \in DOMAIN out_file.text :
           out_file.text[i].k = "Until" /\ out_file.text[i].v = 18
    /\ \E i \in DOMAIN out_file.text :
           out_file.text[i].k = "Site:Location" /\ out_file.text[i].lat = 375


-----------------------------------------------------------------------------
(* First occurrence only *)

\* the objects a patch finds by an anchor of their own
AnchorKinds ==
    {"Site:Location", "Building", "ElectricEquipment:ITE:AirCooled",
     "SimulationControl"}

\* the schedule an "Until" line belongs to: the nearest name above it
GoverningName(doc, i) ==
    LET names == {j \in 1..(i - 1) : doc[j].k = "ScheduleName"}
    IN  IF names = {} THEN ""
        ELSE doc[CHOOSE j \in names : \A h \in names : h <= j].name

\* line i is a match of an anchor that has a match before line i
LaterMatch(doc, i) ==
    \/ /\ doc[i].k \in AnchorKinds
       /\ Matches(doc[i], doc[i].k)
       /\ \E j \in 1..(i - 1) : Matches(doc[j], doc[i].k)
    \/ /\ Matches(doc[i], "Until")
       /\ GoverningName(doc, i) \in {CoolingSchedule, HeatingSchedule}
       /\ \E j \in 1..(i - 1) :
              /\ Matches(doc[j], "Until")
              /\ GoverningName(doc, j) = GoverningName(doc, i)

PatchSteps ==
    {"location", "geometry", "data_center", "manufacturing", "setpoints",
     "simulation_options"}

\* C6: every anchor-addressed patch rewrites only the first occurrence of
\* its anchor: a step that completes leaves every match after the first
\* as it was, and the process-equipment object is inserted at one place
C6_FirstOccurrenceOnly ==
    [][(pc \in PatchSteps /\ pc' # "raised") =>
          IF pc = "manufacturing"
          THEN Len(idf_content') <= Len(idf_content) + 1
          ELSE /\ Len(idf_content') = Len(idf_content)
               /\ \A i \in DOMAIN idf_content :
                      LaterMatch(idf_content, i) =>
                          idf_content'[i] = idf_content[i]]_vars


-----------------------------------------------------------------------------
(* Absent fields *)

\* the section of building_spec the step at pc reads
Section(name) == IF Has(building_spec, name) THEN building_spec[name] ELSE EmptyDict

\* C7: a field that is absent leaves its aspect of the document as it was:
\* a location without elevation_m keeps every Site:Location elevation, and
\* simulation_options without run_annual (run_design_days) keeps the
\* weather-file (sizing) flag of every SimulationControl object
C7_AbsentFieldKeepsAspect ==
    [][/\ (/\ pc = "location"
           /\ pc' = "geometry"
           /\ Has(building_spec, "location")
           /\ ~Has(Section("location"), "elevation_m"))
          => \A i \in DOMAIN idf_content :
                 idf_content[i].k = "Site:Location" =>
                     /\ idf_content'[i].k = "Site:Location"
                     /\ idf_content'[i].elev = idf_content[i].elev
       /\ (/\ pc = "simulation_options"
           /\ pc' = "metadata"
           /\ Has(building_spec, "simulation_options"))
          => \A i \in DOMAIN idf_content :
                 idf_content[i].k = "SimulationControl" =>
                     /\ ~Has(Section("simulation_options"), "run_annual")
                        => idf_content'[i].weather = idf_content[i].weather
                     /\ ~Has(Section("simulation_options"), "run_design_days")
                        => idf_content'[i].sizing = idf_content[i].sizing]_vars


-----------------------------------------------------------------------------
(* Per-unit power *)

\* C9: when the data-center step runs with it_load_kw and rack_count both
\* given (rack_count >= 1), every ITE object it rewrites carries
\* it_load_kw * 1000 / rack_count watts per unit and rack_count units,
\* whatever watts_per_rack says
C9_PerUnitPower ==
    [][(/\ pc = "data_center"
        /\ calls' = Append(calls, "_apply_data_center_params")
        /\ Has(Section("data_center"), "it_load_kw")
        /\ Has(Section("data_center"), "rack_count")
        /\ Section("data_center").rack_count >= 1)
       => \A i \in DOMAIN idf_content :
              Matches(idf_content[i], "ElectricEquipment:ITE:AirCooled") =>
                  /\ idf_content'[i].units = Section("data_center").rack_count
                  /\ idf_content'[i].watts * Section("data_center").rack_count
                         = Section("data_center").it_load_kw * 1000]_vars


-----------------------------------------------------------------------------
(* Location over the whole range of longitudes *)

\* specifications that give a latitude and every longitude of the range,
\* with or without a site name
LongitudeSpecs ==
    {[location |-> loc] :
        loc \in {[latitude |-> 375, longitude |-> lon] :
                     lon \in (-MaxLongitude)..MaxLongitude}
                \cup {[latitude |-> -900, longitude |-> lon,
                       site_name |-> <<"Acme">>] :
                          lon \in (-MaxLongitude)..MaxLongitude}}

\* generate_model is entered for a template that holds one Site:Location
CallLongitude ==
    /\ pc = "idle"
    /\ InCache(templates_cache, "DataCenter_SingleZone")
    /\ \E spec \in LongitudeSpecs,
          tid \in {"DataCenter_SingleZone", "Manufacturing_Warehouse"} :
           /\ building_spec' = spec
           /\ template_id' = tid
    /\ pc' = "resolve"
    /\ UNCHANGED <<http, templates_dir, templates_cache, out_dir_exists, out_file, template,
                   idf_content, modifications, result, calls>>

NextLongitude == CallLongitude \/ Run

SpecLongitude == Init /\ [][NextLongitude]_vars

\* the Site:Location objects of a document
SiteLocations(doc) == {i \in DOMAIN doc : doc[i].k = "Site:Location"}

\* z is an integer nearest to lon / 15 (lon in tenths of a degree)
NearestHour(z, lon) ==
    \A y \in -13..13 :
        Abs(TenthsPerHour * z - lon) <= Abs(TenthsPerHour * y - lon)

\* C8: for a template with one Site:Location object and a specification
\* giving latitude and longitude, once the location step has run the
\* document holds one Site:Location object, written as one block with the
\* given latitude and longitude and a time zone that is longitude / 15
\* rounded to the nearest integer (-8 for longitude -122.3)
C8_LocationBlock ==
    (/\ pc \notin {"idle", "resolve", "load", "location", "raised"}
     /\ Has(building_spec, "location")
     /\ Has(building_spec.location, "latitude")
     /\ Has(building_spec.location, "longitude")
     /\ Cardinality(SiteLocations(template[1].idf)) = 1)
    => LET loc == building_spec.location
       IN  /\ Cardinality(SiteLocations(idf_content)) = 1
           /\ \A i \in SiteLocations(idf_content) :
                  /\ idf_content[i].lat = loc.latitude
                  /\ idf_content[i].lon = loc.longitude
                  /\ idf_content[i].tz \in -12..12
                  /\ NearestHour(idf_content[i].tz, loc.longitude)
                  /\ loc.longitude = -1223 => idf_content[i].tz = -8
                  /\ idf_content[i].name =
                         IF Has(loc, "site_name") THEN loc.site_name
                         ELSE DefaultSiteName(loc.latitude, loc.longitude)
                  /\ idf_content[i].elev =
                         IF Has(loc, "elevation_m") THEN loc.elevation_m ELSE 0

\* the spec's example, written to the output file
C8_Witness ==
    /\ pc = "done"
    /\ template_id = "DataCenter_SingleZone"
    /\ building_spec = [location |-> [latitude |-> 375, longitude |-> -1223]]
    /\ \E i \in DOMAIN out_file.text :
           /\ out_file.text[i].k = "Site:Location"
           /\ out_file.text[i].lat = 375
           /\ out_file.text[i].lon = -1223
           /\ out_file.text[i].tz = -8


-----------------------------------------------------------------------------
(* The epsilon of the geometry step *)

\* template.defaults.get("geometry", {})
GeometryDefaults ==
    IF Has(template[1].defaults, "geometry") THEN template[1].defaults.geometry
    ELSE EmptyDict

\* the template default a requested dimension is divided by
TemplateDefault(axis, default) ==
    IF Has(GeometryDefaults, axis) THEN GeometryDefaults[axis] ELSE default

\* the requested dimension
Requested(axis, default) ==
    IF Has(Section("geometry"), axis) THEN Section("geometry")[axis]
    ELSE TemplateDefault(axis, default)

Axes ==
    {<<"length_m", DefaultLength>>, <<"width_m", DefaultWidth>>,
     <<"height_m", DefaultHeight>>}

\* requested / default is further than 0.001 from 1.0
BeyondEpsilon(axis) ==
    Abs(Requested(axis[1], axis[2]) - TemplateDefault(axis[1], axis[2]))
        * EpsilonInv > TemplateDefault(axis[1], axis[2])

\* requested / default is nearer than 0.001 to 1.0
WithinEpsilon(axis) ==
    Abs(Requested(axis[1], axis[2]) - TemplateDefault(axis[1], axis[2]))
        * EpsilonInv < TemplateDefault(axis[1], axis[2])

ScaledEntry(entry) ==
    /\ entry.k = "Scaled geometry"
    /\ entry.length = Requested("length_m", DefaultLength)
    /\ entry.width = Requested("width_m", DefaultWidth)
    /\ entry.height = Requested("height_m", DefaultHeight)

\* the entries the step at hand has added to the list
Added == SubSeq(modifications', Len(modifications) + 1, Len(modifications'))

\* C10: when the geometry step runs to its end, a factor requested /
\* default further than 0.001 from 1.0 on some axis makes it scale every
\* vertex by the three factors and log the scaling; with all three factors
\* nearer than 0.001 to 1.0 no vertex line is rewritten and no scaling is
\* logged; and the scaling is logged exactly when the vertices are rewritten
C10_EpsilonGate ==
    [][(/\ pc = "geometry"
        /\ pc' = "data_center"
        /\ Has(building_spec, "geometry"))
       => LET vertices == {i \in DOMAIN idf_content : idf_content[i].k = "Vertex"}
              logged == \E e \in Range(Added) : e.k = "Scaled geometry"
              rewritten == \A i \in vertices :
                  /\ idf_content'[i].f6
                  /\ idf_content'[i].x =
                         MulDiv(idf_content[i].x, Requested("length_m", DefaultLength),
                                TemplateDefault("length_m", DefaultLength))
                  /\ idf_content'[i].y =
                         MulDiv(idf_content[i].y, Requested("width_m", DefaultWidth),
                                TemplateDefault("width_m", DefaultWidth))
                  /\ idf_content'[i].z =
                         MulDiv(idf_content[i].z, Requested("height_m", DefaultHeight),
                                TemplateDefault("height_m", DefaultHeight))
              untouched == \A i \in vertices : idf_content'[i] = idf_content[i]
          IN  /\ Len(idf_content') = Len(idf_content)
              /\ (\E axis \in Axes : BeyondEpsilon(axis))
                     => rewritten /\ \E e \in Range(Added) : ScaledEntry(e)
              /\ (\A axis \in Axes : WithinEpsilon(axis))
                     => untouched /\ ~logged
              /\ IF logged THEN rewritten ELSE untouched]_vars

\* a length 0.05% off the template's leaves the vertices and the log alone
C10_Witness ==
    /\ pc = "data_center"
    /\ template_id = "DataCenter_SingleZone"
    /\ Has(building_spec, "geometry")
    /\ building_spec.geometry = [length_m |-> 10005]
    /\ \A e \in Range(modifications) : e.k # "Scaled geometry"
    /\ \E i \in DOMAIN idf_content :
           /\ idf_content[i].k = "Vertex"
           /\ idf_content[i] = template[1].idf[i]
           /\ ~idf_content[i].f6


-----------------------------------------------------------------------------
(* _scale_geometry on its own *)

\* the lines of the documents _scale_geometry is tried on: surface keyword,
\* vertex lines as written by hand and as line 369 writes them, other lines
ScaleInputLines ==
    { SurfaceLine,
      OtherLine("Wall,", FALSE),
      OtherLine("Version,9.5;", TRUE),
      LastFieldLine("3.0;", "!- Vertex 4 Z-coordinate {m}"),
      ExponentVertexLine(10000000, 5000000, 3000000, ","),
      VertexLine(0, 0, 3000000, ",", "!- X,Y,Z", FALSE, FALSE),
      VertexLine(10000000, 5000000, 3000000, ";", "", FALSE, FALSE),
      VertexLine(10000000, 5000000, 3000000, ";", "", TRUE, FALSE),
      VertexLine(0, 5000000, 0, ",", "", TRUE, FALSE) }

RECURSIVE DocsOfLen(_)
DocsOfLen(n) ==
    IF n = 0 THEN {<<>>}
    ELSE {Append(d, l) : d \in DocsOfLen(n - 1), l \in ScaleInputLines}

ScaleInputs == UNION {DocsOfLen(n) : n \in 0..MaxLines}

\* scale factors as pairs <<requested, default>>
ScaleFactors == {<<10000, 10000>>, <<20000, 10000>>, <<2500, 5000>>}

InitScale ==
    /\ templates_dir = <<>>
    /\ templates_cache = <<>>
    /\ out_dir_exists = FALSE
    /\ out_file = NoFile
    /\ pc = "scale"
    /\ building_spec = EmptyDict
    /\ template_id = ""
    /\ template = <<>>
    /\ idf_content \in ScaleInputs
    /\ modifications = <<>>
    /\ result = [status |-> "none"]
    /\ calls = <<>>
    /\ http = NoRequests

\* _scale_geometry(idf_content, scale_x, scale_y, scale_z); the arguments
\* are kept in building_spec
ScaleGeometry ==
    /\ pc = "scale"
    /\ \E sx \in ScaleFactors, sy \in ScaleFactors, sz \in ScaleFactors :
           /\ building_spec' = [scale |-> <<sx, sy, sz>>]
           /\ idf_content' = _scale_geometry(idf_content, sx, sy, sz)
    /\ pc' = "scaled"
    /\ calls' = Append(calls, "_scale_geometry")
    /\ UNCHANGED <<http, templates_dir, templates_cache, out_dir_exists, out_file, template_id,
                   template, modifications, result>>

NextScale == ScaleGeometry

SpecScale == InitScale /\ [][NextScale]_vars

\* C11: with identity factors _scale_geometry returns every vertex line
\* of its input as it was
C11_IdentityKeepsVertexText ==
    [][(/\ pc = "scale"
        /\ pc' = "scaled"
        /\ \A a \in 1..3 : building_spec'.scale[a][1] = building_spec'.scale[a][2])
       => /\ Len(idf_content') = Len(idf_content)
          /\ \A i \in DOMAIN idf_content :
                 idf_content[i].k = "Vertex" => idf_content'[i] = idf_content[i]]_vars


-----------------------------------------------------------------------------
(* The step functions on their own, in any order *)

\* a document whose cooling schedule is written "Until: 24:00, 29;" (a
\* blank after the comma, which the pattern of line 474 does not accept)
\* and whose heating schedule is written as the pattern of line 480 expects
SpacedCoolingDoc ==
    << SiteLocationLine(<<"OldName">>, 100, 100, 1, 0, TRUE),
       BuildingLine(0, TRUE),
       ScheduleNameLine(CoolingSchedule),
       UntilLine(29, FALSE),
       ScheduleNameLine(HeatingSchedule),
       UntilLine(15, TRUE),
       SimulationControlLine("Yes", "No", TRUE) >>

\* a document in which a thermostat names the cooling schedule before the
\* schedules are defined, and another schedule is defined first
ReferencedScheduleDoc ==
    << ScheduleNameLine(CoolingSchedule),
       ScheduleNameLine("Always On"),
       UntilLine(1, TRUE),
       ScheduleNameLine(CoolingSchedule),
       UntilLine(29, TRUE),
       OutputLine(TRUE) >>

PatchInputs ==
    {DataCenterDoc, WarehouseDoc, TwinDoc, CommentedDoc, SpacedCoolingDoc,
     ReferencedScheduleDoc}

\* the step functions with the arguments they are tried with
LocationPatches ==
    {[step |-> "location", arg |-> loc] :
        loc \in {l \in Locations : Has(l, "latitude") /\ Has(l, "longitude")}
                  \cup {[latitude |-> 303, longitude |-> -977,
                         site_name |-> <<"Austin, TX">>]}}

\* _apply_geometry with the defaults of the data-center template
GeometryPatches ==
    {[step |-> "geometry", arg |-> g] : g \in Geometries}

\* the data-center sections with which the step returns
DataCenterPatches ==
    {[step |-> "data_center", arg |-> dc] :
        dc \in {d \in DataCenters :
                   _apply_data_center_params(<<>>, d).err = ""}}

ManufacturingPatches ==
    {[step |-> "manufacturing", arg |-> mfg] : mfg \in Manufacturings}

OrientationPatches ==
    {[step |-> "orientation", arg |-> [orientation_deg |-> 90]]}

CoolingPatches ==
    {[step |-> "cooling", arg |-> [cooling_setpoint_c |-> 27]]}

HeatingPatches ==
    {[step |-> "heating", arg |-> [heating_setpoint_c |-> 18]]}

SimulationPatches ==
    {[step |-> "simulation", arg |-> o] : o \in SimulationOptions}

Patches ==
    LocationPatches \cup OrientationPatches \cup CoolingPatches
        \cup HeatingPatches \cup SimulationPatches \cup GeometryPatches
        \cup DataCenterPatches \cup ManufacturingPatches

\* what the step function of a patch returns for a document
Patched(patch, doc) ==
    CASE patch.step = "location" -> _apply_location(doc, patch.arg)
      [] patch.step = "orientation" ->
             _apply_geometry(doc, patch.arg, EmptyDict)
      [] patch.step \in {"cooling", "heating"} -> _apply_setpoints(doc, patch.arg)
      [] patch.step = "simulation" -> _apply_simulation_options(doc, patch.arg)
      [] patch.step = "geometry" ->
             _apply_geometry(doc, patch.arg, DataCenterTemplate.defaults.geometry)
      [] patch.step = "data_center" -> _apply_data_center_params(doc, patch.arg)
      [] patch.step = "manufacturing" ->
             _apply_manufacturing_params(doc, patch.arg)

InitPatch ==
    /\ templates_dir = <<>>
    /\ templates_cache = <<>>
    /\ out_dir_exists = FALSE
    /\ out_file = NoFile
    /\ pc = "patch"
    /\ building_spec = EmptyDict
    /\ template_id = ""
    /\ template = <<>>
    /\ idf_content \in PatchInputs
    /\ modifications = <<>>
    /\ result = [status |-> "none"]
    /\ calls = <<>>
    /\ http = NoRequests

\* one step function is applied to the document at hand
Apply(patches) ==
    /\ pc = "patch"
    /\ Len(calls) < MaxPatches
    /\ \E patch \in patches :
           /\ idf_content' = Patched(patch, idf_content).doc
           /\ modifications' = modifications \o Patched(patch, idf_content).mods
           /\ calls' = Append(calls, patch.step)
    /\ UNCHANGED <<http, templates_dir, templates_cache, out_dir_exists, out_file, pc, building_spec,
                   template_id, template, result>>

PatchLocation == Apply(LocationPatches)

PatchOrientation == Apply(OrientationPatches)

PatchCooling == Apply(CoolingPatches)

PatchHeating == Apply(HeatingPatches)

PatchSimulation == Apply(SimulationPatches)

PatchGeometry == Apply(GeometryPatches)

PatchDataCenter == Apply(DataCenterPatches)

PatchManufacturing == Apply(ManufacturingPatches)

NextPatch ==
    \/ PatchLocation
    \/ PatchOrientation
    \/ PatchCooling
    \/ PatchHeating
    \/ PatchSimulation
    \/ PatchGeometry
    \/ PatchDataCenter
    \/ PatchManufacturing

SpecPatch == InitPatch /\ [][NextPatch]_vars

\* pairs of steps that address different anchors
DisjointAnchors(a, b) ==
    {a.step, b.step} \in
        { {"cooling", "heating"}, {"location", "orientation"},
          {"cooling", "simulation"}, {"heating", "simulation"},
          {"location", "simulation"}, {"location", "cooling"},
          {"orientation", "heating"} }

\* C12: for every document, two steps that address disjoint anchors yield
\* the same final document in either order
C12_DisjointStepsCommute ==
    \A a \in Patches, b \in Patches :
        DisjointAnchors(a, b) =>
            Patched(a, Patched(b, idf_content).doc).doc
                = Patched(b, Patched(a, idf_content).doc).doc


-----------------------------------------------------------------------------
(* The same request twice *)

\* the first of two calls with the same arguments
CallFirst ==
    /\ pc = "idle"
    /\ \E spec \in BuildingSpecs, tid \in TemplateIds :
           /\ Cardinality(DOMAIN spec \cap OptionalSections) <= MaxTwiceSections
           /\ building_spec' = spec
           /\ template_id' = tid
    /\ pc' = "resolve"
    /\ UNCHANGED <<http, templates_dir, templates_cache, out_dir_exists, out_file, template,
                   idf_content, modifications, result, calls>>

\* generate_model is entered again with the arguments of the call that has
\* just returned, on the same service and the same output path; the file
\* and the result of the first call are still there
CallAgain ==
    /\ pc = "done"
    /\ "generate_model" \notin Range(calls)
    /\ template_id' = IF "_select_template" \in Range(calls) THEN ""
                      ELSE template_id
    /\ pc' = "resolve"
    /\ template' = <<>>
    /\ idf_content' = <<>>
    /\ modifications' = <<>>
    /\ calls' = <<"generate_model">>
    /\ UNCHANGED <<http, templates_dir, templates_cache, out_dir_exists, out_file, building_spec,
                   result>>

NextTwice == CallFirst \/ Run \/ CallAgain

SpecTwice == Init /\ [][NextTwice]_vars

\* the call at hand is the second of two calls with the same arguments
SecondCall == calls # <<>> /\ Head(calls) = "generate_model"

\* a document with the time of generation taken out of its header
Untimed(doc) ==
    [i \in DOMAIN doc |->
        IF doc[i].k = "Header" THEN [doc[i] EXCEPT !.generated = 0] ELSE doc[i]]

\* C13: a second call with the same catalog, specification and template id
\* completes with a document that equals the first call's but for the time
\* of generation in the header, and with the same modification list
C13_SameRequestSameOutput ==
    SecondCall =>
        /\ pc # "raised"
        /\ pc = "save" =>
               /\ out_file.exists
               /\ Untimed(idf_content) = Untimed(out_file.text)
        /\ pc \in {"save", "return"} =>
               modifications = result.modifications_applied
        /\ pc = "done" =>
               /\ result.modifications_applied = modifications
               /\ out_file.text = idf_content

\* a second call that is about to write a document with entries in its
\* list and another time in its header than the first call's
C13_Witness ==
    /\ SecondCall
    /\ pc = "save"
    /\ modifications # <<>>
    /\ Has(building_spec, "geometry")
    /\ idf_content # out_file.text


-----------------------------------------------------------------------------
(* Auto-selection *)

\* building_spec.get("building_type", "data_center")
RequestedType ==
    IF Has(building_spec, "building_type") THEN building_spec.building_type
    ELSE "data_center"

\* the call was made without a template id and has got past _select_template
AutoSelected == pc \notin {"idle", "resolve"} /\ "_select_template" \in Range(calls)

\* the registered templates of the requested building type, in catalog order
OfRequestedType ==
    {i \in DOMAIN templates_cache :
         templates_cache[i].building_type = RequestedType}

\* C14: when the template id is omitted and no registered template has the
\* requested building type, the call fails with the no-template-for-type
\* error; no template of another building type is used
C14_NoTemplateOfTypeFails ==
    (AutoSelected /\ OfRequestedType = {}) =>
        /\ pc = "raised"
        /\ result.error = "NoTemplateForType"
        /\ template = <<>>


\* the id line 249-253 maps the requested type to, "" when there is none
MappedId ==
    CASE RequestedType = "data_center" -> "DataCenter_SingleZone"
      [] RequestedType \in {"manufacturing", "warehouse"} -> "Manufacturing_Warehouse"
      [] OTHER -> ""

\* C15: with the template id omitted, the template used is the one whose id
\* the building type is mapped to if that id is registered, otherwise the
\* first registered template of the requested building type; the selected
\* id is one get_template resolves and the one reported as template_used
C15_AutoSelection ==
    AutoSelected =>
        /\ (MappedId # "" /\ InCache(templates_cache, MappedId))
               => template_id = MappedId
        /\ (~(MappedId # "" /\ InCache(templates_cache, MappedId))
            /\ OfRequestedType # {})
               => /\ template_id \in
                         {templates_cache[i].template_id : i \in OfRequestedType}
                  /\ \A i \in OfRequestedType :
                         templates_cache[i].template_id = template_id
                             => \A j \in OfRequestedType : i <= j
        /\ pc = "raised" => result.error # "TemplateNotFound"
        /\ template_id # "" =>
               /\ InCache(templates_cache, template_id)
               /\ template = <<Lookup(templates_cache, template_id)>>
        /\ pc = "done" => result.template_used = template_id

\* the mapped id is not registered and the first template of the requested
\* type is not the first of the catalog
C15_Witness ==
    /\ AutoSelected
    /\ pc = "done"
    /\ RequestedType = "data_center"
    /\ ~InCache(templates_cache, "DataCenter_SingleZone")
    /\ templates_cache[1].building_type # "data_center"
    /\ result.template_used = "Twin"


-----------------------------------------------------------------------------
(* Catalog construction: __init__ and _load_templates *)

\* the metadata files a scanned directory is made of
MetadataFiles ==
    { MetadataOf(DataCenterTemplate),
      MetadataOf(TwinTemplate),
      MetadataFile(TRUE, "Twin", "file", "office", CommentedDoc, EmptyDict),
      MetadataFile(FALSE, "", "absent", "unknown", <<>>, EmptyDict),
      MetadataFile(TRUE, "", "file", "office", CommentedDoc, EmptyDict),
      MetadataFile(TRUE, "NoDocument", "absent", "office", <<>>, EmptyDict),
      MetadataFile(TRUE, "Misnamed", "missing", "office", <<>>, EmptyDict),
      MetadataFile(TRUE, "Directory", "dir", "office", <<>>, EmptyDict) }

RECURSIVE DirsOfLen(_)
DirsOfLen(n) ==
    IF n = 0 THEN {<<>>}
    ELSE {Append(d, f) : d \in DirsOfLen(n - 1), f \in MetadataFiles}

\* the directories in the order iterdir() and glob() list their files
ScannedDirs == UNION {DirsOfLen(n) : n \in 0..MaxFiles}

\* self._templates_cache[template_id] = info: a new key goes last, a key
\* already there keeps its place
Register(cache, info) ==
    IF InCache(cache, info.template_id)
    THEN [i \in DOMAIN cache |->
             IF cache[i].template_id = info.template_id THEN info ELSE cache[i]]
    ELSE Append(cache, info)

\* the body of the loop of line 76 for one file: [cache, outcome]
LoadOne(cache, file) ==
    IF ~file.parses
    THEN [cache |-> cache, outcome |-> "error"]       \* json.load raises
    ELSE IF file.template_id = ""
    THEN [cache |-> cache, outcome |-> "skipped"]     \* line 82-83
    ELSE IF file.idf_file = "absent"
    THEN [cache |-> cache, outcome |-> "error"]       \* category_dir / None
    ELSE IF file.idf_file = "missing"
    THEN [cache |-> cache, outcome |-> "skipped"]     \* idf_path.exists() is False
    ELSE [cache |-> Register(cache,
                       TemplateInfo(file.template_id, file.building_type,
                                    file.idf, file.defaults)),
          outcome |-> "loaded"]

\* __init__ up to line 63: the cache is empty, no file scanned yet
InitLoad ==
    /\ templates_dir \in ScannedDirs
    /\ templates_cache = <<>>
    /\ out_dir_exists = FALSE
    /\ out_file = NoFile
    /\ pc = "scan"
    /\ building_spec = EmptyDict
    /\ template_id = ""
    /\ template = <<>>
    /\ idf_content = <<>>
    /\ modifications = <<>>
    /\ result = [status |-> "none"]
    /\ calls = <<>>
    /\ http = NoRequests

\* one turn of the loop of line 76; calls lists the outcome for each file
LoadTemplateFile ==
    /\ pc = "scan"
    /\ Len(calls) < Len(templates_dir)
    /\ LET got == LoadOne(templates_cache, templates_dir[Len(calls) + 1])
       IN  /\ templates_cache' = got.cache
           /\ calls' = Append(calls, got.outcome)
    /\ UNCHANGED <<http, templates_dir, out_dir_exists, out_file, pc, building_spec,
                   template_id, template, idf_content, modifications, result>>

\* _load_templates returns and __init__ with it
Constructed ==
    /\ pc = "scan"
    /\ Len(calls) = Len(templates_dir)
    /\ pc' = "idle"
    /\ UNCHANGED <<http, templates_dir, templates_cache, out_dir_exists, out_file,
                   building_spec, template_id, template, idf_content,
                   modifications, result, calls>>

NextLoad == LoadTemplateFile \/ Constructed

SpecLoad == InitLoad /\ [][NextLoad]_vars

\* the metadata parsed, declared a non-empty id and referenced a document
\* file that existed
Loadable(file) ==
    file.parses /\ file.template_id # "" /\ file.idf_file = "file"

\* C16: construction completes whatever the metadata files contain, and the
\* catalog then holds exactly the templates whose metadata parsed, declared
\* a non-empty id and referenced a document file that existed
C16_CatalogHoldsTheLoadable ==
    /\ pc \in {"scan", "idle"}
    /\ pc = "idle" =>
           /\ \A i \in DOMAIN templates_cache :
                  \E f \in Range(templates_dir) :
                      /\ Loadable(f)
                      /\ templates_cache[i] =
                             TemplateInfo(f.template_id, f.building_type, f.idf,
                                          f.defaults)
           /\ \A f \in Range(templates_dir) :
                  Loadable(f) => InCache(templates_cache, f.template_id)


-----------------------------------------------------------------------------
(* The service in use: catalog queries and generate_model *)

\* list_templates(building_type); "" is None
list_templates(cache, building_type) ==
    LET kept == {i \in DOMAIN cache :
                     building_type = "" \/ cache[i].building_type = building_type}
        RECURSIVE Listed(_)
        Listed(i) ==
            IF i > Len(cache) THEN <<>>
            ELSE IF i \in kept
            THEN << [template_id |-> cache[i].template_id,
                     building_type |-> cache[i].building_type,
                     defaults |-> cache[i].defaults] >> \o Listed(i + 1)
            ELSE Listed(i + 1)
    IN  Listed(1)

\* a query is made of the idle service; its outcome is kept in result
Query(name, outcome) ==
    /\ pc = "idle"
    /\ Len(calls) < MaxQueries
    /\ result' = outcome
    /\ calls' = Append(calls, name)
    /\ UNCHANGED <<http, templates_dir, templates_cache, out_dir_exists, out_file, pc,
                   building_spec, template_id, template, idf_content,
                   modifications>>

\* a list_templates that hands the catalog's entries out and empties it
ListTemplates_draining ==
    /\ pc = "idle"
    /\ Len(calls) < MaxQueries
    /\ result' = [status |-> "returned",
                  templates |-> list_templates(templates_cache, "")]
    /\ templates_cache' = <<>>
    /\ calls' = Append(calls, "list_templates")
    /\ UNCHANGED <<http, templates_dir, out_dir_exists, out_file, pc, building_spec,
                   template_id, template, idf_content, modifications>>

ListTemplates ==
    \E building_type \in BuildingTypes \cup {""} :
        Query("list_templates",
              [status |-> "returned",
               templates |-> list_templates(templates_cache, building_type)])

GetTemplate ==
    \E tid \in TemplateIds \ {""} :
        LET got == get_template(templates_cache, tid)
        IN  Query("get_template",
                  IF got.err # ""
                  THEN [status |-> "raised", error |-> got.err,
                        available |-> got.available]
                  ELSE [status |-> "returned", template |-> got.template[1]])

SelectTemplate ==
    \E building_type \in BuildingTypes \cup {"warehouse"} :
        LET got == _select_template(templates_cache, building_type)
        IN  Query("_select_template",
                  IF got.err # ""
                  THEN [status |-> "raised", error |-> got.err, available |-> <<>>]
                  ELSE [status |-> "returned", template_id |-> got.id])

\* generate_model is entered on a service that has answered queries
CallService ==
    /\ pc = "idle"
    /\ \E spec \in BuildingSpecs, tid \in TemplateIds :
           /\ Cardinality(DOMAIN spec \cap OptionalSections) <= MaxTwiceSections
           /\ building_spec' = spec
           /\ template_id' = tid
    /\ pc' = "resolve"
    /\ result' = [status |-> "none"]
    /\ calls' = <<>>
    /\ UNCHANGED <<http, templates_dir, templates_cache, out_dir_exists, out_file,
                   template, idf_content, modifications>>

NextService ==
    \/ ListTemplates
    \/ GetTemplate
    \/ SelectTemplate
    \/ CallService
    \/ Run

SpecService == Init /\ [][NextService]_vars

\* C17: after construction no list_templates, get_template,
\* _select_template or generate_model call, successful or failing, adds,
\* removes or alters a registered template or its defaults, nor touches
\* the template files on disk
C17_CatalogNeverMutated ==
    [][/\ templates_cache' = templates_cache
       /\ templates_dir' = templates_dir]_vars

\* a call that read a template's geometry defaults has returned, the
\* catalog being the one the service was constructed with
C17_Witness ==
    /\ pc = "done"
    /\ Has(building_spec, "geometry")
    /\ Has(template[1].defaults, "geometry")
    /\ Len(templates_cache) = 4
    /\ templates_cache \in Catalogs


-----------------------------------------------------------------------------
(* The provenance header *)

\* C18: the header is only prepended: the header step puts one header
\* block in front of the document the last step left and changes nothing
\* in it, and the document written is that header followed by that document
C18_HeaderOnlyPrepended ==
    [][/\ (pc = "metadata" /\ pc' = "save") =>
              /\ Len(idf_content') = Len(idf_content) + 1
              /\ Head(idf_content').k = "Header"
              /\ Head(idf_content').template = template_id
              /\ \A i \in DOMAIN idf_content : idf_content'[i + 1] = idf_content[i]
       /\ (pc = "save" /\ pc' = "return") =>
              /\ out_file'.exists
              /\ out_file'.text = idf_content
              /\ idf_content' = idf_content]_vars

\* a written document whose header names the site the location step wrote
C18_Witness ==
    /\ pc = "done"
    /\ Head(out_file.text).k = "Header"
    /\ Head(out_file.text).location = <<"Acme">>
    /\ \E i \in 2..Len(out_file.text) :
           /\ out_file.text[i].k = "Site:Location"
           /\ out_file.text[i].name = <<"Acme">>
    /\ \A i \in 2..Len(out_file.text) : out_file.text[i].k # "Header"


-----------------------------------------------------------------------------
(* POST /api/models/generate: requests in flight at the same time *)

\* the requests handled side by side (worker processes of one deployment)
Requests == {1, 2}

\* request.project_name; "" is None
ProjectNames == {"", "Plant A", "Plant_A"}

\* request.output_filename; "" is None
OutputFilenames == {"", "fixed.idf"}

\* "".join(c if c.isalnum() or c in "-_" else "_" for c in project_name)
\* of line 342, for project_name or "model"
safe_name(project_name) ==
    CASE project_name = "" -> "model"
      [] project_name = "Plant A" -> "Plant_A"
      [] project_name = "Plant_A" -> "Plant_A"

\* the sections of a request besides its names
RequestSections ==
    {EmptyDict, [location |-> [latitude |-> 375, longitude |-> -1223]]}

\* request.model_dump(exclude_none=True, exclude={"template_id",
\* "output_filename"}) of line 332
ModelDump(project_name, sections) ==
    Item("project_name", IF project_name = "" THEN <<>> ELSE <<project_name>>)
        @@ sections

\* lines 339-347: the path under <output_dir>/models; strftime of line 343
\* keeps the clock to the second
OutputPath(project_name, output_filename, now) ==
    IF output_filename # "" THEN <<output_filename>>
    ELSE <<safe_name(project_name), now>>

\* the service is constructed with the templates directory as shipped
InitHttp ==
    /\ Init
    /\ InCache(templates_cache, "DataCenter_SingleZone")

\* a second passes
Tick ==
    /\ http.now < MaxTime
    /\ http' = [http EXCEPT !.now = @ + 1]
    /\ UNCHANGED <<templates_dir, templates_cache, out_dir_exists, out_file, pc,
                   building_spec, template_id, template, idf_content,
                   modifications, result, calls>>

\* lines 332-347: request r arrives and its output path is fixed
Receive(r) ==
    /\ r \notin DOMAIN http.req
    /\ \E project_name \in ProjectNames, output_filename \in OutputFilenames,
          sections \in RequestSections :
           http' = [http EXCEPT !.req =
               (r :> [pc |-> "named",
                      building_spec |-> ModelDump(project_name, sections),
                      explicit |-> output_filename # "",
                      path |-> OutputPath(project_name, output_filename, http.now),
                      doc |-> <<>>]) @@ @]
    /\ UNCHANGED <<templates_dir, templates_cache, out_dir_exists, out_file, pc,
                   building_spec, template_id, template, idf_content,
                   modifications, result, calls>>

\* lines 350-354: generate_model for request r, up to the write of line 234
Generate(r) ==
    /\ r \in DOMAIN http.req
    /\ http.req[r].pc = "named"
    /\ LET spec == http.req[r].building_spec
           info == Lookup(templates_cache, "DataCenter_SingleZone")
           doc == <<_generate_metadata_comment(spec, info.template_id, http.now)>>
                      \o ChainedFor(spec, info)
       IN  http' = [http EXCEPT !.req[r].pc = "written",
                                !.req[r].doc = doc,
                                !.models = (http.req[r].path :> doc) @@ @]
    /\ UNCHANGED <<templates_dir, templates_cache, out_dir_exists, out_file, pc,
                   building_spec, template_id, template, idf_content,
                   modifications, result, calls>>

\* line 356: the result is returned to the client of request r
Respond(r) ==
    /\ r \in DOMAIN http.req
    /\ http.req[r].pc = "written"
    /\ http' = [http EXCEPT !.req[r].pc = "returned"]
    /\ UNCHANGED <<templates_dir, templates_cache, out_dir_exists, out_file, pc,
                   building_spec, template_id, template, idf_content,
                   modifications, result, calls>>

NextHttp ==
    \/ Tick
    \/ \E r \in Requests : Receive(r)
    \/ \E r \in Requests : Generate(r)
    \/ \E r \in Requests : Respond(r)

SpecHttp == InitHttp /\ [][NextHttp]_vars

\* C19: however two requests interleave, the document persisted for each
\* is the one that request produced, and two requests that gave no output
\* filename do not share an output path
C19_RequestsDoNotInterfere ==
    /\ \A r \in DOMAIN http.req :
           http.req[r].pc \in {"written", "returned"} =>
               /\ http.req[r].path \in DOMAIN http.models
               /\ http.models[http.req[r].path] = http.req[r].doc
    /\ \A r, q \in DOMAIN http.req :
           (r # q /\ ~http.req[r].explicit /\ ~http.req[q].explicit)
               => http.req[r].path # http.req[q].path


-----------------------------------------------------------------------------
(* Read once, write once *)

\* the places of a function in the history of the call
Places(name) == {i \in DOMAIN calls : calls[i] = name}

\* the step functions and the header function
Transformations ==
    {"_apply_location", "_apply_geometry", "_apply_data_center_params",
     "_apply_manufacturing_params", "_apply_setpoints",
     "_apply_simulation_options", "_generate_metadata_comment"}

\* C20: in a generate_model call the template is read once, before any
\* step; the output is written at most once, after every step and the
\* header; a call that fails has written no output file; and the template
\* files stay as they were
C20_ReadOnceWriteOnce ==
    /\ Cardinality(Places("read")) <= 1
    /\ Cardinality(Places("write")) <= 1
    /\ \A i \in DOMAIN calls :
           calls[i] \in Transformations =>
               /\ \E j \in Places("read") : j < i
               /\ \A j \in Places("write") : i < j
    /\ pc \in {"location", "geometry", "data_center", "manufacturing",
               "setpoints", "simulation_options", "metadata", "save"}
           => Cardinality(Places("read")) = 1 /\ Places("write") = {}
    /\ out_file.exists <=> Places("write") # {}
    /\ pc \in {"return", "done"} =>
           /\ Cardinality(Places("write")) = 1
           /\ "_generate_metadata_comment" \in Range(calls)
    /\ pc = "raised" => ~out_file.exists /\ ~out_dir_exists
    /\ templates_dir = [i \in DOMAIN templates_cache |->
                           MetadataOf(templates_cache[i])]
    /\ template # <<>> => template[1].idf = Lookup(templates_cache, template_id).idf

\* a call that read its template and then failed in a step, nothing written
C20_Witness ==
    /\ pc = "raised"
    /\ result.error = "TypeError"
    /\ Places("read") # {}
    /\ "_apply_data_center_params" \in Range(calls)
    /\ ~out_file.exists


-----------------------------------------------------------------------------
(* _scale_geometry: what becomes of a vertex line *)

\* line i of doc is read in vertex mode: a surface keyword line stands
\* above it and no line between the two ends the surface for the loop
InVertexMode(doc, i) ==
    \E j \in 1..(i - 1) :
        /\ doc[j].k = "BuildingSurface:Detailed"
        /\ \A h \in (j + 1)..(i - 1) :
               /\ doc[h].k = "Vertex" => doc[h].sep # ";"
               /\ doc[h].k # "Vertex" => ~EndsWithSemicolon(doc[h])

RECURSIVE Gcd(_, _)
Gcd(a, b) == IF b = 0 THEN a ELSE Gcd(b, a % b)

\* after is before times the factor f = <<requested, default>>, to the
\* nearest unit of the sixth decimal place
IsProduct(after, before, f) ==
    LET g == Gcd(f[1], f[2])
        n == f[1] \div g
        d == f[2] \div g
    IN  2 * Abs(after * d - before * n) <= d

\* C21: _scale_geometry returns as many lines as it was given, of the same
\* kinds in the same order, and each vertex line read in vertex mode comes
\* back as one vertex line with X, Y and Z multiplied by sx, sy and sz and
\* with the terminator and the comment it had
C21_VertexLinesScaled ==
    [][(pc = "scale" /\ pc' = "scaled") =>
          /\ Len(idf_content') = Len(idf_content)
          /\ \A i \in DOMAIN idf_content :
                 /\ idf_content'[i].k = idf_content[i].k
                 /\ (idf_content[i].k = "Vertex" /\ InVertexMode(idf_content, i))
                    => /\ IsProduct(idf_content'[i].x, idf_content[i].x,
                                    building_spec'.scale[1])
                       /\ IsProduct(idf_content'[i].y, idf_content[i].y,
                                    building_spec'.scale[2])
                       /\ IsProduct(idf_content'[i].z, idf_content[i].z,
                                    building_spec'.scale[3])
                       /\ idf_content'[i].sep = idf_content[i].sep
                       /\ idf_content'[i].cmt = idf_content[i].cmt]_vars

\* a surface whose commented first vertex and last vertex have been scaled
\* by 2, 1/2 and 1
C21_Witness ==
    /\ pc = "scaled"
    /\ building_spec.scale = <<(<<20000, 10000>>), (<<2500, 5000>>), (<<10000, 10000>>)>>
    /\ idf_content =
           << SurfaceLine,
              VertexLine(0, 0, 3000000, ",", "!- X,Y,Z", TRUE, FALSE),
              VertexLine(20000000, 2500000, 3000000, ";", "", TRUE, FALSE) >>


-----------------------------------------------------------------------------
(* _scale_geometry: lines outside a surface *)

\* the line carries the ";" that ends the object it belongs to
EndsObject(line) ==
    CASE line.k = "Vertex" -> line.sep = ";"
      [] line.k = "Other" -> line.semi \/ Has(line, "last")
      [] OTHER -> FALSE

\* line i of doc lies inside a BuildingSurface:Detailed object: below the
\* keyword line of one, with no end of an object in between
InsideSurface(doc, i) ==
    \E j \in 1..(i - 1) :
        /\ doc[j].k = "BuildingSurface:Detailed"
        /\ \A h \in (j + 1)..(i - 1) : ~EndsObject(doc[h])

\* C22: _scale_geometry returns every line that lies outside a
\* BuildingSurface:Detailed object as it was, numeric triples of later
\* objects included
C22_OutsideSurfaceUntouched ==
    [][(pc = "scale" /\ pc' = "scaled") =>
          \A i \in DOMAIN idf_content :
              ~InsideSurface(idf_content, i) => idf_content'[i] = idf_content[i]]_vars


-----------------------------------------------------------------------------
(* _scale_geometry: the vertices of one surface *)

\* the line holds one vertex of a surface, in whatever notation
IsVertex(line) == line.k = "Vertex" \/ Has(line, "vertex")

\* the vertices of the surface whose keyword line is line j of doc
VerticesOf(doc, j) ==
    {i \in (j + 1)..Len(doc) :
        /\ IsVertex(doc[i])
        /\ \A h \in (j + 1)..(i - 1) :
               ~EndsObject(doc[h]) /\ doc[h].k # "BuildingSurface:Detailed"}

\* C23: of the vertices of one BuildingSurface:Detailed object,
\* _scale_geometry multiplies all by the scale factors or leaves all with
\* the coordinates they had
C23_SurfaceScaledAsAWhole ==
    [][(pc = "scale" /\ pc' = "scaled") =>
          \A j \in DOMAIN idf_content :
              idf_content[j].k = "BuildingSurface:Detailed" =>
                  \/ \A i \in VerticesOf(idf_content, j) :
                         /\ IsProduct(idf_content'[i].x, idf_content[i].x,
                                      building_spec'.scale[1])
                         /\ IsProduct(idf_content'[i].y, idf_content[i].y,
                                      building_spec'.scale[2])
                         /\ IsProduct(idf_content'[i].z, idf_content[i].z,
                                      building_spec'.scale[3])
                  \/ \A i \in VerticesOf(idf_content, j) :
                         /\ idf_content'[i].x = idf_content[i].x
                         /\ idf_content'[i].y = idf_content[i].y
                         /\ idf_content'[i].z = idf_content[i].z]_vars


-----------------------------------------------------------------------------
(* The manufacturing step: one insertion or none *)

\* the lines of doc the insertion pattern for this kind of object matches
AnchorsOf(doc, kind) == {i \in DOMAIN doc : Matches(doc[i], kind)}

\* the first of a set of line numbers
First(lines) == CHOOSE i \in lines : \A j \in lines : i <= j

\* C24: the manufacturing step with process_load_kw > 0 inserts exactly
\* one process-equipment object, directly before the Exterior:Lights
\* anchor, or before the first Output: anchor when there is no
\* Exterior:Lights anchor, and changes nothing else; with neither anchor
\* the document stays as it was and no added load is recorded
C24_OneInsertionOrNoOp ==
    [][(/\ pc = "manufacturing"
        /\ calls' = Append(calls, "_apply_manufacturing_params")
        /\ Has(Section("manufacturing"), "process_load_kw")
        /\ Section("manufacturing").process_load_kw > 0)
       => LET lights == AnchorsOf(idf_content, "Exterior:Lights")
              outputs == AnchorsOf(idf_content, "Output:")
              at == IF lights # {} THEN First(lights) ELSE First(outputs)
          IN  IF lights \cup outputs = {}
              THEN /\ idf_content' = idf_content
                   /\ \A e \in Range(modifications') :
                          e.k # "Added process equipment load"
              ELSE /\ Len(idf_content') = Len(idf_content) + 1
                   /\ idf_content'[at].k = "ProcessEquipment"
                   /\ \A i \in 1..(at - 1) : idf_content'[i] = idf_content[i]
                   /\ \A i \in at..Len(idf_content) :
                          idf_content'[i + 1] = idf_content[i]]_vars


-----------------------------------------------------------------------------
(* Objects and fields *)

\* the number of fields the text of a line holds
FieldCount(line) ==
    CASE line.k = "Site:Location" -> 5 + Commas(line.name)
      [] line.k = "Vertex" -> IF line.more THEN 4 ELSE 3
      [] line.k \in {"ElectricEquipment:ITE:AirCooled", "SimulationControl"} -> 2
      [] OTHER -> 1

\* the number of objects that end in doc, one for each ";" that ends a field
ObjectCount(doc) ==
    Cardinality({i \in DOMAIN doc :
                    \/ EndsObject(doc[i])
                    \/ doc[i].k \in {"Site:Location", "Until", "ProcessEquipment"}})

\* C25: every step function but the manufacturing one returns a document
\* with as many objects as it was given and with as many fields in each,
\* whatever values the specification section holds
C25_CountsPreserved ==
    [][(/\ pc = "patch"
        /\ Len(calls') = Len(calls) + 1
        /\ calls'[Len(calls')] # "manufacturing")
       => /\ ObjectCount(idf_content') = ObjectCount(idf_content)
          /\ Len(idf_content') = Len(idf_content)
          /\ \A i \in DOMAIN idf_content :
                 FieldCount(idf_content'[i]) = FieldCount(idf_content[i])]_vars


-----------------------------------------------------------------------------
(* The setpoint step: the frame *)

\* the schedule a setpoint step names
NamedSchedule(step) ==
    IF step = "cooling" THEN CoolingSchedule ELSE HeatingSchedule

\* C26: the setpoint step changes nothing but the value after
\* "Until: 24:00," of the schedule it names: every line it changes is an
\* "Until" line of the Cooling Return Air Setpoint Schedule (cooling) or
\* of the Heating Setpoint Schedule (heating), changed in its value only
C26_OnlyTheNamedSchedule ==
    [][(/\ pc = "patch"
        /\ Len(calls') = Len(calls) + 1
        /\ calls'[Len(calls')] \in {"cooling", "heating"})
       => /\ Len(idf_content') = Len(idf_content)
          /\ \A i \in DOMAIN idf_content :
                 idf_content'[i] # idf_content[i] =>
                     /\ idf_content[i].k = "Until"
                     /\ idf_content'[i] = [idf_content[i] EXCEPT !.v = idf_content'[i].v]
                     /\ GoverningName(idf_content, i)
                            = NamedSchedule(calls'[Len(calls')])]_vars


-----------------------------------------------------------------------------
(* The simulation-options step *)

\* options.get(name, default) of the simulation_options section
Option(name, default) ==
    IF Has(Section("simulation_options"), name)
    THEN Section("simulation_options")[name] ELSE default

-----------------------------------------------------------------------------
(* A step applied twice *)

\* C28: every step function is idempotent: for every document and every
\* specification section, applying the step to its own result returns
\* that result again
C28_StepsIdempotent ==
    \A patch \in Patches :
        Patched(patch, Patched(patch, idf_content).doc).doc
            = Patched(patch, idf_content).doc


-----------------------------------------------------------------------------
(* Dispatch on the building type *)

\* building_spec.get("building_type"); "" is None
Tag == IF Has(building_spec, "building_type") THEN building_spec.building_type
       ELSE ""

\* the step function the step of generate_model just taken has called
Called(name) == calls' = Append(calls, name)

\* C29: the data-center step function is called only for the tag
\* data_center with a data_center section, the manufacturing one only for
\* the tag manufacturing with a manufacturing section, never both in one
\* call, and a section of the other variant leaves the document and the
\* modification list as they were
C29_DispatchOnTag ==
    [][/\ Called("_apply_data_center_params")
          => Tag = "data_center" /\ Has(building_spec, "data_center")
       /\ Called("_apply_manufacturing_params")
          => Tag = "manufacturing" /\ Has(building_spec, "manufacturing")
       /\ ~({"_apply_data_center_params", "_apply_manufacturing_params"}
               \subseteq Range(calls'))
       /\ (pc = "data_center" /\ Tag # "data_center")
          => UNCHANGED <<idf_content, modifications>>
       /\ (pc = "manufacturing" /\ Tag # "manufacturing")
          => UNCHANGED <<idf_content, modifications>>]_vars

\* a data-center specification that also carries a manufacturing section
\* with a process load: the data-center step has run, the manufacturing
\* step has been passed over
C29_Witness ==
    /\ pc = "setpoints"
    /\ Tag = "data_center"
    /\ Has(building_spec, "data_center")
    /\ Has(building_spec, "manufacturing")
    /\ Has(building_spec.manufacturing, "process_load_kw")
    /\ building_spec.manufacturing.process_load_kw > 0
    /\ "_apply_data_center_params" \in Range(calls)
    /\ "_apply_manufacturing_params" \notin Range(calls)
    /\ \A i \in DOMAIN idf_content : idf_content[i].k # "ProcessEquipment"
    /\ \E i \in DOMAIN idf_content :
           idf_content[i].k = "ElectricEquipment:ITE:AirCooled"
               /\ idf_content[i].units = 10


-----------------------------------------------------------------------------
(* Per-unit power: the entry and the document *)

\* C30: when the data-center step is given a rack_count, it returns, and
\* the per-unit power its modification entry reports is the per-unit power
\* it has written into every ITE object it rewrote
C30_ReportedIsWritten ==
    [][(/\ Called("_apply_data_center_params")
        /\ Has(Section("data_center"), "rack_count"))
       => /\ pc' # "raised"
          /\ Len(modifications') = Len(modifications) + 1
          /\ modifications'[Len(modifications')].k = "Set IT equipment"
          /\ \A i \in DOMAIN idf_content :
                 Matches(idf_content[i], "ElectricEquipment:ITE:AirCooled") =>
                     idf_content'[i].watts
                         = modifications'[Len(modifications')].watts]_vars

=============================================================================
